---- MODULE Spec2Model ----
(***************************************************************************)
(* A model of the JcQ trade-simulation core: the bracket-order execution   *)
(* simulator, the risk manager with its day-keyed counters, and the        *)
(* bar-by-bar backtest engine that drives them.                            *)
(*                                                                         *)
(* Conventions.  Prices are integral points.  Money is integral cents.     *)
(* Bar positions are 0-based as in the code (bars.iloc[k] is bars[k+1]).   *)
(* R multiples are exact rationals <<numerator, denominator>>.             *)
(* Timestamps are whole hours since 00:00 UTC of day 0.                    *)
(***************************************************************************)
EXTENDS Integers, Sequences, FiniteSets, TLC

VARIABLES
    \* ---- simulate_execution called on its own
    bars,            \* the bars argument
    order,           \* entry_price, stop_price, target_price, side, entry_bar_idx
    exec_result,     \* the returned dict, or NoExecution
    exec_pc          \* "ready" before the call, "returned" after it

execVars == <<bars, order, exec_result, exec_pc>>

VARIABLES
    \* ---- a RiskManager instance (RiskManager.cfg and its RiskLimits)
    cfg_risk,          \* the risk configuration
    daily_realized_r,  \* RiskLimits.daily_realized_r: trading day -> realized R
    daily_trades,      \* RiskLimits.daily_trades: trading day -> trade count
    open_risk_r,       \* RiskLimits.open_risk_r
    \* ---- the caller of the RiskManager's methods
    last_call,         \* the latest method call: its name, arguments and result
    calls              \* number of method calls made so far

riskVars == <<cfg_risk, daily_realized_r, daily_trades, open_risk_r>>
callVars == <<last_call, calls>>

VARIABLES
    \* ---- a BacktestEngine instance and the caller of its run method
    series,       \* the bar series handed to run: its scenario and its tail
    run_symbol,   \* the symbol handed to run
    pc,           \* "idle" outside run, "loop" inside its bar loop, "raised"
    i,            \* run's loop index, a 0-based position in df_features
    trades,       \* self.trades, the ledger
    log,          \* what each pass of the bar loop saw and did
    results,      \* what each call of run returned, in call order
    runs,         \* number of calls of run that have returned
    \* ---- a second BacktestEngine instance, run side by side with the first
    twin          \* its series' tail and its position, ledger, limits and log

engineVars == <<series, run_symbol, pc, i, trades, log, results, runs, twin>>

VARIABLES
    \* ---- generate_candidates and rank_candidates called on their own
    gen,          \* generate_candidates: its arguments and what it returned
    ranking       \* rank_candidates: its arguments and what it returned

stratVars == <<gen, ranking>>

VARIABLES
    \* ---- the process-wide numpy generator and the callers of run_monte_carlo
    rng,          \* the state of np.random's global generator
    mc            \* a caller of run_monte_carlo: its arguments and latest results

simVars == <<rng, mc>>

VARIABLES
    \* ---- the Bayesian adjuster, score_candidates and apply_rules on their own
    bayes,        \* a BayesianAdjustment object and its latest adjust call
    scoring,      \* score_candidates: its arguments and what it returned
    gate          \* apply_rules: its arguments and what it returned

auxVars == <<bayes, scoring, gate>>

vars == <<bars, order, exec_result, exec_pc,
          cfg_risk, daily_realized_r, daily_trades, open_risk_r, last_call, calls,
          series, run_symbol, pc, i, trades, log, results, runs, twin,
          gen, ranking, rng, mc, bayes, scoring, gate>>

-----------------------------------------------------------------------------
(* Bounds *)

\* longest bar series handed to simulate_execution on its own
MaxExecBars == 3
\* number of method calls made on the risk manager on its own
MaxCalls == 3
\* number of bars of a series past the engine's warm-up
MaxTail == 3
\* number of leading bars whose feature rows build_features drops
MaxDropped == 1
\* number of times run is called on one engine
MaxRuns == 2

-----------------------------------------------------------------------------
(* Small helpers *)

Max(a, b) == IF a >= b THEN a ELSE b
Min(a, b) == IF a <= b THEN a ELSE b

\* the price grid, in points
Prices == 1..3

\* A bar as the simulator reads it: open, high, low with low <= open <= high.
BarShapes ==
    { b \in [open : Prices, high : Prices, low : Prices] :
        b.low <= b.open /\ b.open <= b.high }

RECURSIVE SeqsUpTo(_, _)
SeqsUpTo(S, n) ==
    IF n = 0 THEN { <<>> }
    ELSE LET shorter == SeqsUpTo(S, n - 1)
         IN shorter \cup { Append(s, x) : s \in { t \in shorter : Len(t) = n - 1 }, x \in S }

\* Bracket orders: the stop on the losing side of the entry, the target on
\* the winning side.
Brackets ==
    { o \in [entry_price : Prices, stop_price : Prices, target_price : Prices,
             side : {"long", "short"}] :
        IF o.side = "long"
        THEN o.stop_price < o.entry_price /\ o.entry_price < o.target_price
        ELSE o.target_price < o.entry_price /\ o.entry_price < o.stop_price }

-----------------------------------------------------------------------------
(* Execution simulator: jcq/backtest/execution_sim.py *)

NoExecution == [filled |-> FALSE]

\* an entry test that looks at the bar's low only (not what the code does)
EntryFillableAbove(entry_bar, entry_price) ==
    entry_price >= entry_bar.low

\* the entry order fills iff the entry price lies inside the entry bar
EntryFillable(entry_bar, entry_price) ==
    entry_price >= entry_bar.low /\ entry_price <= entry_bar.high

EntryFillOptimistic(side, entry_price, open) ==
    IF side = "long" THEN Min(entry_price, open) ELSE Max(entry_price, open)

\* the worse of the entry price and the bar's open
EntryFill(side, entry_price, open) ==
    IF side = "long" THEN Max(entry_price, open) ELSE Min(entry_price, open)

StopHit(bar, stop_price, side) ==
    IF side = "long" THEN bar.low <= stop_price ELSE bar.high >= stop_price

TargetHit(bar, target_price, side) ==
    IF side = "long" THEN bar.high >= target_price ELSE bar.low <= target_price

ExitOnBarTargetFirst(bar, stop_price, target_price, side) ==
    IF TargetHit(bar, target_price, side) THEN "target"
    ELSE IF StopHit(bar, stop_price, side) THEN "stop"
    ELSE "none"

\* one pass of the exit loop's body: the stop is looked at first
ExitOnBar(bar, stop_price, target_price, side) ==
    IF StopHit(bar, stop_price, side) THEN "stop"
    ELSE IF TargetHit(bar, target_price, side) THEN "target"
    ELSE "none"

RECURSIVE ExitScan(_, _, _, _, _, _)
\* for i in range(entry_bar_idx + 1, len(bars))
ExitScan(bs, stop_price, target_price, side, entry_fill, k) ==
    IF k >= Len(bs) THEN NoExecution
    ELSE LET reason == ExitOnBar(bs[k + 1], stop_price, target_price, side)
         IN IF reason = "none"
            THEN ExitScan(bs, stop_price, target_price, side, entry_fill, k + 1)
            ELSE [ filled |-> TRUE,
                   entry_fill |-> entry_fill,
                   exit_fill |-> IF reason = "stop" THEN stop_price ELSE target_price,
                   exit_bar_idx |-> k,
                   exit_reason |-> reason ]

\* simulate_execution with the exit loop starting on the entry bar (not what
\* the code does)
SimulateExecutionFromEntryBar(bs, entry_price, stop_price, target_price, side, entry_bar_idx) ==
    IF entry_bar_idx >= Len(bs) THEN NoExecution
    ELSE LET entry_bar == bs[entry_bar_idx + 1]
         IN IF ~EntryFillable(entry_bar, entry_price) THEN NoExecution
            ELSE ExitScan(bs, stop_price, target_price, side,
                          EntryFill(side, entry_price, entry_bar.open),
                          entry_bar_idx)

SimulateExecution(bs, entry_price, stop_price, target_price, side, entry_bar_idx) ==
    IF entry_bar_idx >= Len(bs) THEN NoExecution
    ELSE LET entry_bar == bs[entry_bar_idx + 1]
         IN IF ~EntryFillable(entry_bar, entry_price) THEN NoExecution
            ELSE ExitScan(bs, stop_price, target_price, side,
                          EntryFill(side, entry_price, entry_bar.open),
                          entry_bar_idx + 1)

-----------------------------------------------------------------------------
(* Exact rationals <<n, d>> with d > 0, in lowest terms: R multiples *)

Abs(x) == IF x < 0 THEN -x ELSE x

RECURSIVE GCD(_, _)
GCD(a, b) == IF b = 0 THEN a ELSE GCD(b, a % b)

RatNorm(n, d) ==
    LET g == GCD(Abs(n), Abs(d))
        s == IF d < 0 THEN -1 ELSE 1
    IN <<(s * n) \div g, (s * d) \div g>>

RatOfInt(k) == <<k, 1>>
RatAdd(a, b) == RatNorm(a[1] * b[2] + b[1] * a[2], a[2] * b[2])
RatNeg(a) == <<-a[1], a[2]>>
RatAbs(a) == <<Abs(a[1]), a[2]>>
RatLE(a, b) == a[1] * b[2] <= b[1] * a[2]
RatLT(a, b) == a[1] * b[2] < b[1] * a[2]
RatMax(a, b) == IF RatLE(b, a) THEN a ELSE b

\* f"{x:.2f}": x in hundredths, rounded to nearest, ties to even
Hundredths(a) ==
    LET m == Abs(a[1]) * 100
        q == m \div a[2]
        twice == 2 * (m % a[2])
        up == twice > a[2] \/ (twice = a[2] /\ q % 2 = 1)
        h == IF up THEN q + 1 ELSE q
    IN IF a[1] < 0 THEN -h ELSE h

-----------------------------------------------------------------------------
(* Contract reference: jcq/risk/contract_specs.py *)

NQPointValueCents == 2000
NQTickValueCents == 500
MNQPointValueCents == 200
MNQTickValueCents == 50

CONTRACT_SPECS ==
    [ s \in {"NQ", "MNQ"} |->
        IF s = "NQ"
        THEN [ point_value |-> NQPointValueCents, tick_value |-> NQTickValueCents ]
        ELSE [ point_value |-> MNQPointValueCents, tick_value |-> MNQTickValueCents ] ]

\* get_contract_spec raises ValueError for a symbol outside CONTRACT_SPECS
KnownSymbol(symbol) == symbol \in DOMAIN CONTRACT_SPECS

-----------------------------------------------------------------------------
(* Risk limits: jcq/risk/limits.py.  A RiskLimits value is the record       *)
(* [daily_realized_r, daily_trades, open_risk_r]; each method returns the   *)
(* limits it leaves behind, and a check also its (allow, reason) pair.      *)

NoReason == [limit |-> "none"]

EmptyLimits ==
    [ daily_realized_r |-> <<>>, daily_trades |-> <<>>, open_risk_r |-> RatOfInt(0) ]

\* f[k] = v, adding k to the domain when it is new
Put(f, k, v) == [ x \in DOMAIN f \cup {k} |-> IF x = k THEN v ELSE f[x] ]

\* a reset that zeroes the day on every call (not what the code does)
ResetDailyZeroing(limits, trade_date) ==
    [ limits EXCEPT
        !.daily_realized_r = Put(@, trade_date, RatOfInt(0)),
        !.daily_trades = Put(@, trade_date, 0) ]

ResetDaily(limits, trade_date) ==
    [ limits EXCEPT
        !.daily_realized_r =
            IF trade_date \notin DOMAIN @ THEN Put(@, trade_date, RatOfInt(0)) ELSE @,
        !.daily_trades =
            IF trade_date \notin DOMAIN @ THEN Put(@, trade_date, 0) ELSE @ ]

AddRealizedR(limits, trade_date, r) ==
    LET l == ResetDaily(limits, trade_date)
    IN [ l EXCEPT !.daily_realized_r[trade_date] = RatAdd(@, r) ]

AddTrade(limits, trade_date) ==
    LET l == ResetDaily(limits, trade_date)
    IN [ l EXCEPT !.daily_trades[trade_date] = @ + 1 ]

CheckDailyMaxRBelowFloor(limits, cfg, trade_date) ==
    LET l == ResetDaily(limits, trade_date)
        current_r == l.daily_realized_r[trade_date]
        max_r == cfg.daily_max_r
    IN IF RatLT(current_r, RatOfInt(-max_r))
       THEN [ allow |-> FALSE, limits |-> l,
              reason |-> [ limit |-> "daily_max_r",
                           measured |-> Hundredths(current_r), bound |-> max_r ] ]
       ELSE [ allow |-> TRUE, reason |-> NoReason, limits |-> l ]

CheckDailyMaxR(limits, cfg, trade_date) ==
    LET l == ResetDaily(limits, trade_date)
        current_r == l.daily_realized_r[trade_date]
        max_r == cfg.daily_max_r
    IN IF RatLE(current_r, RatOfInt(-max_r))
       THEN [ allow |-> FALSE, limits |-> l,
              reason |-> [ limit |-> "daily_max_r",
                           measured |-> Hundredths(current_r), bound |-> max_r ] ]
       ELSE [ allow |-> TRUE, reason |-> NoReason, limits |-> l ]

CheckMaxTradesCounting(limits, cfg, trade_date) ==
    LET l == ResetDaily(limits, trade_date)
        current_trades == l.daily_trades[trade_date]
        max_trades == cfg.max_trades_day
    IN IF current_trades >= max_trades
       THEN [ allow |-> FALSE, limits |-> l,
              reason |-> [ limit |-> "max_trades_day",
                           measured |-> current_trades, bound |-> max_trades ] ]
       ELSE [ allow |-> TRUE, reason |-> NoReason, limits |-> AddTrade(l, trade_date) ]

CheckMaxTrades(limits, cfg, trade_date) ==
    LET l == ResetDaily(limits, trade_date)
        current_trades == l.daily_trades[trade_date]
        max_trades == cfg.max_trades_day
    IN IF current_trades >= max_trades
       THEN [ allow |-> FALSE, limits |-> l,
              reason |-> [ limit |-> "max_trades_day",
                           measured |-> current_trades, bound |-> max_trades ] ]
       ELSE [ allow |-> TRUE, reason |-> NoReason, limits |-> l ]

CheckMaxOpenRiskReserving(limits, cfg, additional_r) ==
    LET new_open_risk == RatAdd(limits.open_risk_r, additional_r)
        max_open == cfg.max_open_risk_r
    IN IF RatLT(RatOfInt(max_open), new_open_risk)
       THEN [ allow |-> FALSE, limits |-> limits,
              reason |-> [ limit |-> "max_open_risk_r",
                           measured |-> Hundredths(new_open_risk), bound |-> max_open ] ]
       ELSE [ allow |-> TRUE, reason |-> NoReason,
              limits |-> [ limits EXCEPT !.open_risk_r = new_open_risk ] ]

CheckMaxOpenRisk(limits, cfg, additional_r) ==
    LET new_open_risk == RatAdd(limits.open_risk_r, additional_r)
        max_open == cfg.max_open_risk_r
    IN IF RatLT(RatOfInt(max_open), new_open_risk)
       THEN [ allow |-> FALSE, limits |-> limits,
              reason |-> [ limit |-> "max_open_risk_r",
                           measured |-> Hundredths(new_open_risk), bound |-> max_open ] ]
       ELSE [ allow |-> TRUE, reason |-> NoReason, limits |-> limits ]

AddOpenRisk(limits, r) ==
    [ limits EXCEPT !.open_risk_r = RatAdd(@, r) ]

RemoveOpenRisk(limits, r) ==
    [ limits EXCEPT !.open_risk_r = RatMax(RatOfInt(0), RatAdd(@, RatNeg(RatAbs(r)))) ]

-----------------------------------------------------------------------------
(* Risk manager: jcq/risk/risk_manager.py *)

\* a decision that rejects: the dict has no "symbol" key
Reject(reason, qty, risk_r) ==
    [ allow |-> FALSE, reason |-> reason, qty |-> qty, risk_r |-> risk_r,
      costs_estimate |-> 0 ]

\* the contract count rounded up instead of down (not what the code does)
ContractsRoundedUp(cfg, risk_points, point_value) ==
    (cfg.dollars_per_r + risk_points * point_value - 1) \div (risk_points * point_value)

\* math.floor(dollars_at_risk / (risk_points * point_value))
Contracts(cfg, risk_points, point_value) ==
    cfg.dollars_per_r \div (risk_points * point_value)

\* slippage_ticks * tick_value * contracts + fees * contracts * (2 if round_trip else 1);
\* slippage_ticks_per_side is held in half ticks
CostsEstimate(cfg, spec, contracts) ==
    cfg.slippage_half_ticks * (spec.tick_value \div 2) * contracts
    + cfg.fees_per_contract * contracts * (IF cfg.round_trip_fees THEN 2 ELSE 1)

\* the sizing without the micro preference (not what the code does)
SizingWithoutMicro(cfg, risk_points, symbol) ==
    LET spec == CONTRACT_SPECS[symbol]
        contracts == Contracts(cfg, risk_points, spec.point_value)
    IN [ too_small |-> contracts <= 0, symbol |-> symbol, spec |-> spec,
         contracts |-> contracts ]

\* the sizing of lines 64-92: the symbol, spec and contract count the
\* decision is made for, after the micro preference
Sizing(cfg, risk_points, symbol) ==
    LET spec == CONTRACT_SPECS[symbol]
        contracts == Contracts(cfg, risk_points, spec.point_value)
        mnq_spec == CONTRACT_SPECS["MNQ"]
        mnq_contracts == Contracts(cfg, risk_points, mnq_spec.point_value)
    IN IF contracts <= 0
       THEN [ too_small |-> TRUE, symbol |-> symbol, spec |-> spec, contracts |-> contracts ]
       ELSE IF cfg.prefer_micro /\ symbol = "NQ" /\ mnq_contracts >= 1
       THEN [ too_small |-> FALSE, symbol |-> "MNQ", spec |-> mnq_spec,
              contracts |-> mnq_contracts ]
       ELSE [ too_small |-> FALSE, symbol |-> symbol, spec |-> spec, contracts |-> contracts ]

LimitChecksTradesFirst(limits, cfg, trade_date, risk_r) ==
    LET c1 == CheckMaxTrades(limits, cfg, trade_date)
        c2 == CheckDailyMaxR(c1.limits, cfg, trade_date)
        c3 == CheckMaxOpenRisk(c2.limits, cfg, risk_r)
    IN IF ~c1.allow THEN c1
       ELSE IF ~c2.allow THEN c2
       ELSE c3

LimitChecksOpenRiskFirst(limits, cfg, trade_date, risk_r) ==
    LET c1 == CheckMaxOpenRisk(limits, cfg, risk_r)
        c2 == CheckDailyMaxR(c1.limits, cfg, trade_date)
        c3 == CheckMaxTrades(c2.limits, cfg, trade_date)
    IN IF ~c1.allow THEN c1
       ELSE IF ~c2.allow THEN c2
       ELSE c3

\* the limit checks of lines 94-128, in the order the code makes them; each
\* check sees the limits the one before it left behind
LimitChecks(limits, cfg, trade_date, risk_r) ==
    LET c1 == CheckDailyMaxR(limits, cfg, trade_date)
        c2 == CheckMaxTrades(c1.limits, cfg, trade_date)
        c3 == CheckMaxOpenRisk(c2.limits, cfg, risk_r)
    IN IF ~c1.allow THEN c1
       ELSE IF ~c2.allow THEN c2
       ELSE c3

SizePositionReserving(limits, cfg, candidate, symbol, trade_date) ==
    LET risk_points == candidate.risk_points
    IN IF risk_points <= 0
       THEN [ raised |-> FALSE, limits |-> limits,
              decision |-> Reject([limit |-> "invalid_risk_points"], 0, 0) ]
       ELSE IF ~KnownSymbol(symbol)
       THEN [ raised |-> TRUE, limits |-> limits, error |-> "ValueError: Unknown symbol" ]
       ELSE
         LET sz == Sizing(cfg, risk_points, symbol)
             risk_r == 1
             chk == LimitChecks(limits, cfg, trade_date, RatOfInt(risk_r))
         IN IF sz.too_small
            THEN [ raised |-> FALSE, limits |-> limits,
                   decision |-> Reject([limit |-> "position_size_too_small"], 0, 0) ]
            ELSE IF ~chk.allow
            THEN [ raised |-> FALSE, limits |-> chk.limits,
                   decision |-> Reject(chk.reason, sz.contracts, risk_r) ]
            ELSE [ raised |-> FALSE, limits |-> AddOpenRisk(chk.limits, RatOfInt(risk_r)),
                   decision |->
                     [ allow |-> TRUE, reason |-> NoReason, qty |-> sz.contracts,
                       risk_r |-> risk_r,
                       costs_estimate |-> CostsEstimate(cfg, sz.spec, sz.contracts),
                       symbol |-> sz.symbol ] ]

\* RiskManager.size_position: what it returns (a decision, or the exception
\* it lets through) and the limits it leaves behind.  trade_date is a date
\* already, so lines 46-51 leave it alone.
SizePosition(limits, cfg, candidate, symbol, trade_date) ==
    LET risk_points == candidate.risk_points
    IN IF risk_points <= 0
       THEN [ raised |-> FALSE, limits |-> limits,
              decision |-> Reject([limit |-> "invalid_risk_points"], 0, 0) ]
       ELSE IF ~KnownSymbol(symbol)
       THEN [ raised |-> TRUE, limits |-> limits, error |-> "ValueError: Unknown symbol" ]
       ELSE
         LET sz == Sizing(cfg, risk_points, symbol)
             risk_r == 1
             chk == LimitChecks(limits, cfg, trade_date, RatOfInt(risk_r))
         IN IF sz.too_small
            THEN [ raised |-> FALSE, limits |-> limits,
                   decision |-> Reject([limit |-> "position_size_too_small"], 0, 0) ]
            ELSE IF ~chk.allow
            THEN [ raised |-> FALSE, limits |-> chk.limits,
                   decision |-> Reject(chk.reason, sz.contracts, risk_r) ]
            ELSE [ raised |-> FALSE, limits |-> chk.limits,
                   decision |->
                     [ allow |-> TRUE, reason |-> NoReason, qty |-> sz.contracts,
                       risk_r |-> risk_r,
                       costs_estimate |-> CostsEstimate(cfg, sz.spec, sz.contracts),
                       symbol |-> sz.symbol ] ]

-----------------------------------------------------------------------------
(* Session time: jcq/core/time.py *)

\* America/New_York standard time is UTC-5
EasternUtcOffsetHours == 5
\* a bar at or after 18:00 market time belongs to the next day's session
SessionOpenHour == 18

\* the calendar date of a UTC timestamp: Timestamp.date()
DateOf(ts) == ts \div 24

\* session_day: the Globex session date of a UTC timestamp
SessionDay(ts) ==
    LET ts_market == ts - EasternUtcOffsetHours
        hour == ts_market % 24
    IN IF hour >= SessionOpenHour THEN DateOf(ts_market + 24) ELSE DateOf(ts_market)

-----------------------------------------------------------------------------
(* Costs: jcq/backtest/costs.py *)

\* slippage_ticks * tick_value * qty + fees_per_contract * qty, for one leg
CalculateCosts(symbol, qty, cfg) ==
    LET spec == CONTRACT_SPECS[symbol]
    IN cfg.slippage_half_ticks * (spec.tick_value \div 2) * qty
       + cfg.fees_per_contract * qty

-----------------------------------------------------------------------------
(* Backtest engine: jcq/backtest/engine.py *)

\* the loop starts at feature row 100
Warmup == 100

NoCandidate == [side |-> "none"]

\* the number of leading bars of dfb, a table of n bars, from position k on,
\* whose feature row has a NaN
RECURSIVE LeadingNaN(_, _, _)
LeadingNaN(dfb, n, k) ==
    IF k < n /\ ~dfb[k + 1].complete THEN LeadingNaN(dfb, n, k + 1) ELSE k

\* len(build_features(dfb)) for a table dfb of n bars
LenFeatures(dfb, n) == n - LeadingNaN(dfb, n, 0)

\* build_features, as far as the engine reads its result: one row per bar
\* whose features have no NaN (dropna), in time order, carrying the bar's
\* timestamp.  A bar's "complete" says its feature row has no NaN; the rows
\* with a NaN are the leading ones, where the rolling windows are not yet
\* full.  A bar's "setup" is the candidate that generate_candidates,
\* score_candidates, rank_candidates(top_k=1) and apply_rules leave at that
\* row (filtered[0]), or NoCandidate.  The helper columns is_rth and
\* minutes_since_rth (features.py:79-80) are dropped again at line 132 and
\* are not carried; minutes_since_rth_open is taken here to return as
\* documented.  As written it raises for a timestamp with a timezone (see
\* MinutesSinceRthOpen), which every index entry of build_features has.
BuildFeatures(dfb, n) ==
    LET dropped == LeadingNaN(dfb, n, 0)
    IN [ k \in 1..(n - dropped) |->
           [ ts |-> dfb[k + dropped].ts, setup |-> dfb[k + dropped].setup ] ]

\* exit - entry for a long, entry - exit for a short
PnlPoints(side, entry_fill, exit_fill) ==
    IF side = "long" THEN exit_fill - entry_fill ELSE entry_fill - exit_fill

\* lines 140-183: the Trade built from a resolved execution.  Point value
\* and costs are those of the symbol the run was called with.
MakeTrade(dfb, cfg, symbol, candidate, current_ts, decision, execution) ==
    LET qty == decision.qty
        pnl_points == PnlPoints(candidate.side, execution.entry_fill, execution.exit_fill)
        spec == CONTRACT_SPECS[symbol]
        pnl_dollars == pnl_points * spec.point_value * qty
        total_costs == CalculateCosts(symbol, qty, cfg) + CalculateCosts(symbol, qty, cfg)
        net_pnl == pnl_dollars - total_costs
        risk_points == candidate.risk_points
        r_mult == IF risk_points > 0
                  THEN RatNorm(net_pnl, risk_points * spec.point_value * qty)
                  ELSE RatOfInt(0)
    IN [ ts_open |-> current_ts,
         ts_close |-> dfb[execution.exit_bar_idx + 1].ts,
         symbol |-> symbol,
         side |-> candidate.side,
         qty |-> qty,
         entry_price |-> execution.entry_fill,
         exit_price |-> execution.exit_fill,
         stop_price |-> candidate.stop,
         target_price |-> candidate.target,
         pnl |-> net_pnl,
         r_mult |-> r_mult,
         fees |-> total_costs,
         exit_reason |-> execution.exit_reason ]

SettleCountOnly(limits, trade_date, r_mult) == AddTrade(limits, trade_date)

\* lines 188-189: add_trade, then add_realized_r
Settle(limits, trade_date, r_mult) ==
    AddRealizedR(AddTrade(limits, trade_date), trade_date, r_mult)

\* One pass of the bar loop (lines 74-189) of an engine e, a record of the
\* run's position pc and i, the ledger self.trades, the risk manager's
\* limits and a log of what each pass did.
BarStep(e, dfb, dff, cfg, symbol) ==
    LET row == dff[e.i + 1]
        current_ts == row.ts
        candidate == row.setup
        trade_date == DateOf(current_ts)
        sized == SizePosition(e.limits, cfg, candidate, symbol, trade_date)
        execution == SimulateExecution(dfb, candidate.entry, candidate.stop,
                                       candidate.target, candidate.side, e.i)
        trade == MakeTrade(dfb, cfg, symbol, candidate, current_ts,
                           sized.decision, execution)
        seen == [ i |-> e.i, ts |-> current_ts, candidate |-> candidate ]
    IN IF candidate = NoCandidate
       THEN [ e EXCEPT !.i = @ + 1,
                       !.log = Append(@, seen @@ [ outcome |-> "no_candidate" ]) ]
       ELSE IF sized.raised
       THEN [ e EXCEPT !.pc = "raised",
                       !.limits = sized.limits,
                       !.log = Append(@, seen @@ [ outcome |-> "raised",
                                                   trade_date |-> trade_date ]) ]
       ELSE IF ~sized.decision.allow
       THEN [ e EXCEPT !.i = @ + 1,
                       !.limits = sized.limits,
                       !.log = Append(@, seen @@ [ outcome |-> "rejected",
                                                   trade_date |-> trade_date,
                                                   decision |-> sized.decision ]) ]
       ELSE IF ~execution.filled
       THEN [ e EXCEPT !.i = @ + 1,
                       !.limits = sized.limits,
                       !.log = Append(@, seen @@ [ outcome |-> "unresolved",
                                                   trade_date |-> trade_date,
                                                   decision |-> sized.decision ]) ]
       ELSE [ e EXCEPT !.i = @ + 1,
                       !.trades = Append(@, trade),
                       !.limits = Settle(sized.limits, trade_date, trade.r_mult),
                       !.log = Append(@, seen @@ [ outcome |-> "trade",
                                                   trade_date |-> trade_date,
                                                   decision |-> sized.decision ]) ]

RECURSIVE SumR(_)
SumR(ts) == IF ts = <<>> THEN RatOfInt(0) ELSE RatAdd(ts[1].r_mult, SumR(Tail(ts)))

\* equity_curve - running_max, minimised over the ledger: the equity so
\* far, its running maximum so far, the minimum so far
RECURSIVE MaxDrawdown(_, _, _, _, _)
MaxDrawdown(ts, k, equity, running_max, worst) ==
    IF k > Len(ts) THEN worst
    ELSE LET eq == RatAdd(equity, ts[k].r_mult)
             rm == IF k = 1 THEN eq ELSE RatMax(running_max, eq)
             dd == RatAdd(eq, RatNeg(rm))
         IN MaxDrawdown(ts, k + 1, eq, rm, IF k = 1 \/ RatLT(dd, worst) THEN dd ELSE worst)

NoMetrics == [num_trades |-> 0]

\* _calculate_metrics: {} for an empty ledger; the Sharpe ratio and the two
\* averages are left out
CalculateMetrics(ts) ==
    IF ts = <<>> THEN NoMetrics
    ELSE LET Win(t) == RatLT(RatOfInt(0), t.r_mult)
             Loss(t) == RatLT(t.r_mult, RatOfInt(0))
             gross_profit == SumR(SelectSeq(ts, Win))
             gross_loss == RatAbs(SumR(SelectSeq(ts, Loss)))
         IN [ num_trades |-> Len(ts),
              total_r |-> SumR(ts),
              win_rate |-> RatNorm(Len(SelectSeq(ts, Win)), Len(ts)),
              gross_profit |-> gross_profit,
              gross_loss |-> gross_loss,
              max_drawdown |-> MaxDrawdown(ts, 1, RatOfInt(0), RatOfInt(0), RatOfInt(0)) ]

-----------------------------------------------------------------------------
(* The RiskManager's methods called in any order by a caller *)

Limits ==
    [ daily_realized_r |-> daily_realized_r, daily_trades |-> daily_trades,
      open_risk_r |-> open_risk_r ]

\* the RiskLimits fields become those of l
SetLimits(l) ==
    /\ daily_realized_r' = l.daily_realized_r
    /\ daily_trades' = l.daily_trades
    /\ open_risk_r' = l.open_risk_r

Symbols == {"NQ", "MNQ", "ES"}
\* trading days named by the caller
Days == 0..1
\* size_position reads only the candidate's risk_points
RiskCandidates == [ risk_points : 0..2 ]
\* realized R multiples credited by the caller
RMultiples == { <<-1, 1>>, <<3, 2>> }

\* dollars_per_r in cents, slippage in half ticks, fees in cents
AllRiskConfigs ==
    [ dollars_per_r : {3000, 10000},
      prefer_micro : BOOLEAN,
      daily_max_r : 0..2,
      max_trades_day : {1, 10},
      max_open_risk_r : {1, 3},
      slippage_half_ticks : {1},
      fees_per_contract : {50},
      round_trip_fees : {TRUE} ]

\* every combination of the three limits under the default sizing, and
\* every sizing under one setting of the limits
RiskConfigs ==
    { c \in AllRiskConfigs :
        \/ c.dollars_per_r = 10000 /\ c.prefer_micro
        \/ c.daily_max_r = 1 /\ c.max_trades_day = 10 /\ c.max_open_risk_r = 3 }

NoCall == [op |-> "none"]

RiskIdle ==
    /\ cfg_risk = CHOOSE c \in RiskConfigs :
                      /\ c.dollars_per_r = 10000 /\ c.prefer_micro
                      /\ c.daily_max_r = 1 /\ c.max_trades_day = 10
                      /\ c.max_open_risk_r = 3
    /\ daily_realized_r = <<>>
    /\ daily_trades = <<>>
    /\ open_risk_r = RatOfInt(0)
    /\ last_call = NoCall
    /\ calls = 0

NoTwin == [ tail |-> <<>> ]

EngineIdle ==
    /\ series = [ tail |-> <<>> ]
    /\ run_symbol = "NQ"
    /\ pc = "idle"
    /\ i = 0
    /\ trades = <<>>
    /\ log = <<>>
    /\ results = <<>>
    /\ runs = 0
    /\ twin = NoTwin

GenIdle == gen = [ pc |-> "idle" ]

RankIdle == ranking = [ pc |-> "idle" ]

BayesIdle == bayes = [ pc |-> "idle" ]

ScoreIdle == scoring = [ pc |-> "idle" ]

GateIdle == gate = [ pc |-> "idle" ]

AuxIdle == BayesIdle /\ ScoreIdle /\ GateIdle

SimIdle ==
    /\ rng = [ state |-> 0, seed |-> -1 ]
    /\ mc = [ df_trades |-> <<>>, n_simulations |-> 1, calls |-> <<>> ]

ExecIdle ==
    /\ bars = <<>>
    /\ order = [ entry_price |-> 0, stop_price |-> 0, target_price |-> 0,
                 side |-> "long", entry_bar_idx |-> 0 ]
    /\ exec_result = NoExecution
    /\ exec_pc = "idle"

RiskInit ==
    /\ cfg_risk \in RiskConfigs
    /\ daily_realized_r = <<>>
    /\ daily_trades = <<>>
    /\ open_risk_r = RatOfInt(0)
    /\ last_call = NoCall
    /\ calls = 0
    /\ ExecIdle
    /\ EngineIdle
    /\ GenIdle
    /\ RankIdle
    /\ SimIdle
    /\ AuxIdle

Called(call) ==
    /\ calls < MaxCalls
    /\ calls' = calls + 1
    /\ last_call' = call
    /\ UNCHANGED <<cfg_risk, execVars, engineVars, stratVars, simVars, auxVars>>

SizePositionCall ==
    \E c \in RiskCandidates, s \in Symbols, d \in Days :
        LET r == SizePosition(Limits, cfg_risk, c, s, d)
        IN /\ SetLimits(r.limits)
           /\ Called([ op |-> "size_position", candidate |-> c, symbol |-> s,
                       trade_date |-> d,
                       \* does this call repeat the call just before it?
                       repeat |-> /\ last_call.op = "size_position"
                                  /\ last_call.candidate = c
                                  /\ last_call.symbol = s
                                  /\ last_call.trade_date = d,
                       result |-> IF r.raised THEN [ raised |-> TRUE, error |-> r.error ]
                                  ELSE [ raised |-> FALSE, decision |-> r.decision ] ])

ResetDailyCall ==
    \E d \in Days :
        /\ SetLimits(ResetDaily(Limits, d))
        /\ Called([ op |-> "reset_daily", trade_date |-> d ])

AddTradeCall ==
    \E d \in Days :
        /\ SetLimits(AddTrade(Limits, d))
        /\ Called([ op |-> "add_trade", trade_date |-> d ])

AddRealizedRCall ==
    \E d \in Days, r \in RMultiples :
        /\ SetLimits(AddRealizedR(Limits, d, r))
        /\ Called([ op |-> "add_realized_r", trade_date |-> d, r |-> r ])

\* a caller settling a trade: add_trade, then add_realized_r
SettleCall ==
    \E d \in Days, r \in RMultiples :
        /\ SetLimits(AddRealizedR(AddTrade(Limits, d), d, r))
        /\ Called([ op |-> "settle", trade_date |-> d, r |-> r ])

CheckDailyMaxRCall ==
    \E d \in Days :
        LET c == CheckDailyMaxR(Limits, cfg_risk, d)
        IN /\ SetLimits(c.limits)
           /\ Called([ op |-> "check_daily_max_r", trade_date |-> d,
                       result |-> <<c.allow, c.reason>> ])

CheckMaxTradesCall ==
    \E d \in Days :
        LET c == CheckMaxTrades(Limits, cfg_risk, d)
        IN /\ SetLimits(c.limits)
           /\ Called([ op |-> "check_max_trades", trade_date |-> d,
                       result |-> <<c.allow, c.reason>> ])

CheckMaxOpenRiskCall ==
    LET c == CheckMaxOpenRisk(Limits, cfg_risk, RatOfInt(1))
    IN /\ SetLimits(c.limits)
       /\ Called([ op |-> "check_max_open_risk", additional_r |-> RatOfInt(1),
                   result |-> <<c.allow, c.reason>> ])

AddOpenRiskCall ==
    /\ SetLimits(AddOpenRisk(Limits, RatOfInt(1)))
    /\ Called([ op |-> "add_open_risk", r |-> RatOfInt(1) ])

RemoveOpenRiskCall ==
    \E r \in { <<1, 1>>, <<-1, 1>> } :
        /\ SetLimits(RemoveOpenRisk(Limits, r))
        /\ Called([ op |-> "remove_open_risk", r |-> r ])

RiskNext ==
    \/ SizePositionCall
    \/ ResetDailyCall
    \/ AddTradeCall
    \/ AddRealizedRCall
    \/ SettleCall
    \/ CheckDailyMaxRCall
    \/ CheckMaxTradesCall
    \/ CheckMaxOpenRiskCall
    \/ AddOpenRiskCall
    \/ RemoveOpenRiskCall

SpecRisk == RiskInit /\ [][RiskNext]_vars

-----------------------------------------------------------------------------
(* The engine run by a caller *)

\* bar shapes of a series: a quiet bar at the entry price, an up bar, a
\* down bar, a wide bar that opens high, a bar that stays above the entry
Quiet == [open |-> 2, high |-> 2, low |-> 2]
Up == [open |-> 2, high |-> 3, low |-> 2]
Down == [open |-> 2, high |-> 2, low |-> 1]
Wide == [open |-> 3, high |-> 3, low |-> 1]
Above == [open |-> 3, high |-> 3, low |-> 3]

\* the candidates of the series: the brackets around the entry price 2
Setup(o) ==
    [ side |-> o.side, entry |-> o.entry_price, stop |-> o.stop_price,
      target |-> o.target_price,
      risk_points |-> Abs(o.entry_price - o.stop_price),
      reward_points |-> Abs(o.target_price - o.entry_price) ]

LongSetup == Setup(CHOOSE o \in Brackets : o.side = "long" /\ o.entry_price = 2)
ShortSetup == Setup(CHOOSE o \in Brackets : o.side = "short" /\ o.entry_price = 2)

\* a bar past the warm-up: its shape and the candidate left at its row
TailBarKinds ==
    { [shape |-> Quiet, setup |-> NoCandidate],
      [shape |-> Quiet, setup |-> LongSetup],
      [shape |-> Quiet, setup |-> ShortSetup],
      [shape |-> Up, setup |-> NoCandidate],
      [shape |-> Down, setup |-> NoCandidate],
      [shape |-> Wide, setup |-> NoCandidate],
      [shape |-> Wide, setup |-> LongSetup],
      [shape |-> Above, setup |-> LongSetup] }

\* no costs, no micro preference, a daily loss limit of 1R
PlainConfig ==
    [ dollars_per_r |-> 10000, prefer_micro |-> FALSE, daily_max_r |-> 1,
      max_trades_day |-> 10, max_open_risk_r |-> 3,
      slippage_half_ticks |-> 0, fees_per_contract |-> 0, round_trip_fees |-> TRUE ]

\* the default costs and micro preference, two trades a day
CostlyConfig ==
    [ dollars_per_r |-> 10000, prefer_micro |-> TRUE, daily_max_r |-> 5,
      max_trades_day |-> 2, max_open_risk_r |-> 3,
      slippage_half_ticks |-> 1, fees_per_contract |-> 50, round_trip_fees |-> TRUE ]

BaseScenario ==
    [ symbol |-> "NQ", cfg |-> PlainConfig, start_hour |-> 7, timeframe_hours |-> 8,
      n_dropped |-> 0, warm |-> Warmup ]

\* a run's inputs besides the bars past the warm-up: the base scenario, or
\* the base scenario changed in one respect
Scenarios ==
    { s \in [ symbol : Symbols, cfg : {PlainConfig, CostlyConfig}, start_hour : {0, 7},
              timeframe_hours : {8}, n_dropped : 0..MaxDropped, warm : {0, Warmup} ] :
        Cardinality({ f \in DOMAIN s : s[f] # BaseScenario[f] }) <= 1 }

\* the series of a scenario: s.warm quiet bars, then the tail; the first
\* s.n_dropped bars have feature rows with NaNs
Series(s, tail) ==
    [ k \in 1..(s.warm + Len(tail)) |->
        LET kind == IF k <= s.warm THEN [shape |-> Quiet, setup |-> NoCandidate]
                    ELSE tail[k - s.warm]
        IN [ ts |-> s.start_hour + (k - 1) * s.timeframe_hours,
             open |-> kind.shape.open, high |-> kind.shape.high, low |-> kind.shape.low,
             complete |-> k > s.n_dropped,
             setup |-> kind.setup ] ]

\* df_bars, the bar series handed to run
df_bars == Series(series.s, series.tail)

\* len(df_bars)
len_df_bars == series.s.warm + Len(series.tail)

\* df_features, the feature table run builds from it (line 68), and its length
df_features == BuildFeatures(df_bars, len_df_bars)

len_df_features == LenFeatures(df_bars, len_df_bars)

\* a freshly constructed engine (lines 24-45) and the inputs of its runs
EngineFresh(s, tail) ==
    /\ series = [ s |-> s, tail |-> tail ]
    /\ run_symbol = s.symbol
    /\ cfg_risk = s.cfg
    /\ pc = "idle"
    /\ i = 0
    /\ trades = <<>>
    /\ log = <<>>
    /\ results = <<>>
    /\ runs = 0
    /\ daily_realized_r = <<>>
    /\ daily_trades = <<>>
    /\ open_risk_r = RatOfInt(0)
    /\ last_call = NoCall
    /\ calls = 0
    /\ ExecIdle
    /\ GenIdle
    /\ RankIdle
    /\ SimIdle
    /\ AuxIdle

EngineInit ==
    /\ \E s \in Scenarios, tail \in SeqsUpTo(TailBarKinds, MaxTail) : EngineFresh(s, tail)
    /\ twin = NoTwin

EngineState ==
    [ pc |-> pc, i |-> i, trades |-> trades, limits |-> Limits, log |-> log ]

SetEngine(e) ==
    /\ pc' = e.pc
    /\ i' = e.i
    /\ trades' = e.trades
    /\ log' = e.log
    /\ SetLimits(e.limits)

EmptyResult == [ trades |-> <<>>, metrics |-> NoMetrics ]

\* run is called: lines 64-71, up to the head of the bar loop
RunCall ==
    /\ pc = "idle"
    /\ runs < MaxRuns
    /\ IF len_df_bars = 0 \/ len_df_features = 0
       THEN /\ results' = Append(results, EmptyResult)
            /\ runs' = runs + 1
            /\ UNCHANGED <<pc, i>>
       ELSE /\ i' = Warmup
            /\ pc' = "loop"
            /\ UNCHANGED <<results, runs>>
    /\ UNCHANGED <<series, run_symbol, trades, log, riskVars, callVars, execVars, stratVars, simVars, auxVars>>

\* one pass of the bar loop
RunBar ==
    /\ pc = "loop"
    /\ i < len_df_features
    /\ SetEngine(BarStep(EngineState, df_bars, df_features, cfg_risk, run_symbol))
    /\ UNCHANGED <<series, run_symbol, results, runs, cfg_risk, callVars, execVars, stratVars, simVars, auxVars>>

\* the loop has ended: lines 191-202
RunReturn ==
    /\ pc = "loop"
    /\ i >= len_df_features
    /\ results' = Append(results, [ trades |-> trades,
                                    metrics |-> CalculateMetrics(trades) ])
    /\ runs' = runs + 1
    /\ pc' = "idle"
    /\ UNCHANGED <<series, run_symbol, i, trades, log, riskVars, callVars, execVars, stratVars, simVars, auxVars>>

Next ==
    \/ RunCall /\ UNCHANGED twin
    \/ RunBar /\ UNCHANGED twin
    \/ RunReturn /\ UNCHANGED twin

Spec == EngineInit /\ [][Next]_vars

-----------------------------------------------------------------------------
(* Two engines run side by side on series that differ in their last bar *)

\* the scenarios of the pair: a full warm-up, no dropped rows, either config
PairScenarios ==
    { s \in Scenarios : s.warm = Warmup /\ s.n_dropped = 0 /\ s.symbol = "NQ"
                                        /\ s.start_hour = BaseScenario.start_hour }

\* the bars of the pair's series: quiet bars with or without a candidate,
\* and bars that move to the target or to the stop
PairBarKinds ==
    { b \in TailBarKinds : b.shape \in {Quiet, Up, Down} }

\* the twin's series: the first engine's series with another last bar
PairInit ==
    /\ \E s \in PairScenarios, tail \in SeqsUpTo(PairBarKinds, MaxTail),
          last \in PairBarKinds :
          /\ EngineFresh(s, tail)
          /\ twin = [ tail |-> IF tail = <<>> THEN tail
                                ELSE [tail EXCEPT ![Len(tail)] = last],
                       pc |-> "idle", i |-> 0, trades |-> <<>>,
                       limits |-> EmptyLimits, log |-> <<>> ]

\* both engines' run is called
PairCall ==
    /\ RunCall
    /\ twin' = [twin EXCEPT !.pc = pc', !.i = i']

\* both engines make one pass of their bar loop
PairBar ==
    /\ RunBar
    /\ twin.pc = "loop"
    /\ twin' = BarStep(twin, Series(series.s, twin.tail),
                       BuildFeatures(Series(series.s, twin.tail), len_df_bars),
                       cfg_risk, run_symbol)

\* both engines' run returns
PairReturn ==
    /\ RunReturn
    /\ twin' = [twin EXCEPT !.pc = "idle"]

PairNext ==
    \/ PairCall
    \/ PairBar
    \/ PairReturn

SpecPair == PairInit /\ [][PairNext]_vars

-----------------------------------------------------------------------------
(* simulate_execution as an operation of its own *)

ExecInit ==
    /\ bars \in SeqsUpTo(BarShapes, MaxExecBars)
    /\ \E o \in Brackets, k \in 0..MaxExecBars :
          order = [ entry_price |-> o.entry_price, stop_price |-> o.stop_price,
                    target_price |-> o.target_price, side |-> o.side,
                    entry_bar_idx |-> k ]
    /\ exec_result = NoExecution
    /\ exec_pc = "ready"
    /\ RiskIdle
    /\ EngineIdle
    /\ GenIdle
    /\ RankIdle
    /\ SimIdle
    /\ AuxIdle

SimulateExecutionCall ==
    /\ exec_pc = "ready"
    /\ exec_result' = SimulateExecution(bars, order.entry_price, order.stop_price,
                                        order.target_price, order.side,
                                        order.entry_bar_idx)
    /\ exec_pc' = "returned"
    /\ UNCHANGED <<bars, order, riskVars, callVars, engineVars, stratVars, simVars, auxVars>>

ExecNext == SimulateExecutionCall

SpecExec == ExecInit /\ [][ExecNext]_vars

-----------------------------------------------------------------------------
(* Claims about simulate_execution *)

ExecReturned == exec_pc = "returned" /\ exec_result.filled

ExitBar == bars[exec_result.exit_bar_idx + 1]

\* C1: when the bar that ends the position satisfies both the stop and the
\* target condition, simulate_execution reports exit_reason "stop" and fills
\* the exit at the stop price, for a long and for a short.
C1_StopWinsOnSameBar ==
    ( /\ ExecReturned
      /\ StopHit(ExitBar, order.stop_price, order.side)
      /\ TargetHit(ExitBar, order.target_price, order.side) )
    => ( /\ exec_result.exit_reason = "stop"
         /\ exec_result.exit_fill = order.stop_price )

C1_Witness ==
    /\ ExecReturned
    /\ order.side = "short"
    /\ StopHit(ExitBar, order.stop_price, order.side)
    /\ TargetHit(ExitBar, order.target_price, order.side)
    /\ exec_result.exit_reason = "stop"

-----------------------------------------------------------------------------
(* Claims about the risk manager *)

\* a day's counters as every method reads them: a day not yet referenced
\* counts as zero
RealizedOf(m, d) == IF d \in DOMAIN m THEN m[d] ELSE RatOfInt(0)
TradesOf(m, d) == IF d \in DOMAIN m THEN m[d] ELSE 0

\* the step is a call of size_position
SizeStep == calls' = calls + 1 /\ last_call'.op = "size_position"

SizeReturned == last_call.op = "size_position" /\ ~last_call.result.raised

\* C6 as stated: size_position leaves the daily realized-R map, the daily
\* trade-count map and the open-risk total exactly as they were, whether it
\* allows or rejects.
C6_SizePositionLeavesMapsAlone ==
    [][ SizeStep =>
          /\ daily_realized_r' = daily_realized_r
          /\ daily_trades' = daily_trades
          /\ open_risk_r' = open_risk_r ]_vars

\* C6 amended: size_position changes no counter value: every day's realized
\* R and trade count (a day not yet referenced counting as zero) and the
\* open-risk total are the same after the call as before it; the only change
\* it can make to the two maps is to enter the call's trade date with zeros.
C6_SizePositionKeepsCounterValues ==
    [][ SizeStep =>
          /\ open_risk_r' = open_risk_r
          /\ DOMAIN daily_realized_r' \subseteq
                DOMAIN daily_realized_r \cup {last_call'.trade_date}
          /\ DOMAIN daily_trades' \subseteq
                DOMAIN daily_trades \cup {last_call'.trade_date}
          /\ \A d \in DOMAIN daily_realized_r' \cup DOMAIN daily_trades' :
                /\ RealizedOf(daily_realized_r', d) = RealizedOf(daily_realized_r, d)
                /\ TradesOf(daily_trades', d) = TradesOf(daily_trades, d) ]_vars

C6_Witness ==
    /\ SizeReturned
    /\ ~last_call.result.decision.allow
    /\ last_call.result.decision.reason.limit = "max_trades_day"
    /\ daily_trades[last_call.trade_date] >= 1
    /\ daily_realized_r[last_call.trade_date] # RatOfInt(0)

\* the state size_position is called in: N >= 1 trades credited to the
\* call's trade date, a realized R of -N there, and daily_max_r = N - 1
AfterNLosses(d) ==
    LET N == TradesOf(daily_trades, d)
    IN /\ N >= 1
       /\ RealizedOf(daily_realized_r, d) = RatOfInt(-N)
       /\ cfg_risk.daily_max_r = N - 1

RejectedFor(call, limit) ==
    /\ ~call.result.raised
    /\ ~call.result.decision.allow
    /\ call.result.decision.reason.limit = limit

\* the candidate gets past the sizing of size_position: positive
\* risk_points, a known symbol, at least one contract
Sizable(candidate, symbol) ==
    /\ candidate.risk_points > 0
    /\ KnownSymbol(symbol)
    /\ ~Sizing(cfg_risk, candidate.risk_points, symbol).too_small

\* C7 as stated: with daily_max_r = N - 1, after N trades of a day were each
\* settled with r_mult = -1, the next size_position call for that day is
\* rejected with the daily-max-R reason.
C7_RejectedForDailyMaxR ==
    [][ (SizeStep /\ AfterNLosses(last_call'.trade_date))
          => RejectedFor(last_call', "daily_max_r") ]_vars

\* C7 amended: the same, for a call whose candidate gets past the sizing
\* (risk_points > 0, a known symbol, at least one contract); the reason is
\* the daily-max-R one even when the trade count is at its ceiling too.
C7_SizableRejectedForDailyMaxR ==
    [][ ( /\ SizeStep
          /\ AfterNLosses(last_call'.trade_date)
          /\ Sizable(last_call'.candidate, last_call'.symbol) )
          => RejectedFor(last_call', "daily_max_r") ]_vars

C7_Witness ==
    /\ last_call.op = "size_position"
    /\ RejectedFor(last_call, "daily_max_r")
    /\ cfg_risk.daily_max_r = 1
    /\ cfg_risk.max_trades_day = 1
    /\ daily_trades[last_call.trade_date] = 2
    /\ daily_realized_r[last_call.trade_date] = RatOfInt(-2)

\* C8: a size_position call that repeats the call just before it (same
\* candidate, symbol and trade date, nothing in between) returns the same
\* result: the same allow, reason, qty, risk_r, costs_estimate and symbol.
C8_RepeatedSizingAgrees ==
    [][ (SizeStep /\ last_call'.repeat) => last_call'.result = last_call.result ]_vars

C8_Witness ==
    /\ SizeReturned
    /\ last_call.repeat
    /\ last_call.result.decision.allow
    /\ last_call.result.decision.symbol = "MNQ"

-----------------------------------------------------------------------------
(* Claims about the engine *)

\* the series is three bars long, and some bar carries the long candidate
\* while the bar after it has its low on the candidate's stop and its high
\* on the candidate's target
ThreeBarStopSeries ==
    /\ series.s.warm = 0
    /\ series.s.n_dropped = 0
    /\ series.s.cfg = PlainConfig
    /\ KnownSymbol(run_symbol)
    /\ Len(series.tail) = 3
    /\ \E k \in 1..2 :
          /\ series.tail[k] = [shape |-> Quiet, setup |-> LongSetup]
          /\ series.tail[k + 1].shape.low = LongSetup.stop
          /\ series.tail[k + 1].shape.high >= LongSetup.target

\* C3 as stated: run on such a three-bar series, with zero costs, records a
\* Trade whose exit_reason is "stop" and whose r_mult is -1.
C3_ThreeBarSeriesRecordsStop ==
    (ThreeBarStopSeries /\ Len(results) >= 1) =>
        \E k \in 1..Len(results[1].trades) :
            /\ results[1].trades[k].exit_reason = "stop"
            /\ results[1].trades[k].r_mult = RatOfInt(-1)

AgreeThrough(k) ==
    \A j \in 1..Len(series.tail) :
        series.s.warm + j - 1 <= k => series.tail[j] = twin.tail[j]

NoDecision == [allow |-> "none"]

\* the sizing decision a pass of the loop obtained, if it asked for one
SizingOf(entry) == IF "decision" \in DOMAIN entry THEN entry.decision ELSE NoDecision

KnownDates(l) == DOMAIN l.daily_realized_r \cup DOMAIN l.daily_trades

\* every day's realized R and trade count read the same in l and m
SameCounters(l, m) ==
    \A d \in KnownDates(l) \cup KnownDates(m) :
        /\ RealizedOf(l.daily_realized_r, d) = RealizedOf(m.daily_realized_r, d)
        /\ TradesOf(l.daily_trades, d) = TradesOf(m.daily_trades, d)

\* the counters of m are those of l with one more trade and r more realized
\* R on day day
Credited(l, m, day, r) ==
    \A d \in KnownDates(l) \cup KnownDates(m) \cup {day} :
        /\ RealizedOf(m.daily_realized_r, d) =
              IF d = day THEN RatAdd(RealizedOf(l.daily_realized_r, d), r)
              ELSE RealizedOf(l.daily_realized_r, d)
        /\ TradesOf(m.daily_trades, d) =
              IF d = day THEN TradesOf(l.daily_trades, d) + 1
              ELSE TradesOf(l.daily_trades, d)

\* C9: a pass of the bar loop whose candidate is rejected or whose execution
\* is unresolved leaves the ledger and every day's realized R and trade count
\* as they were; a pass with a resolved execution appends exactly one Trade
\* and adds one trade and that Trade's r_mult to the counters of the Trade's
\* date, and to no other date's; every other step (a pass without a
\* candidate, a pass in which size_position raises, the call of run and its
\* return) leaves the counters as they were.
C9_IterationFrame ==
    [][ LET before == Limits
            after == [ daily_realized_r |-> daily_realized_r',
                       daily_trades |-> daily_trades',
                       open_risk_r |-> open_risk_r' ]
        IN IF Len(log') = Len(log) + 1 /\ log'[Len(log')].outcome = "trade"
           THEN /\ Len(trades') = Len(trades) + 1
                /\ SubSeq(trades', 1, Len(trades)) = trades
                /\ Credited(before, after,
                            DateOf(trades'[Len(trades')].ts_open),
                            trades'[Len(trades')].r_mult)
           ELSE /\ trades' = trades
                /\ SameCounters(before, after) ]_vars

\* a run has traded, has had a candidate rejected by a limit, and has had
\* an execution unresolved
C9_Witness ==
    /\ \E k \in 1..Len(log) : log[k].outcome = "trade"
    /\ \E k \in 1..Len(log) : /\ log[k].outcome = "rejected"
                               /\ log[k].decision.reason.limit # "none"
    /\ \E k \in 1..Len(log) : log[k].outcome = "unresolved"

-----------------------------------------------------------------------------
(* Claims about error handling *)

\* C11 as stated: size_position called with an unknown symbol or with
\* risk_points <= 0 raises nothing and returns a decision with allow false,
\* qty 0 and a reason.
C11_BadInputRejectedLocally ==
    ( /\ last_call.op = "size_position"
      /\ \/ ~KnownSymbol(last_call.symbol)
         \/ last_call.candidate.risk_points <= 0 )
    => /\ ~last_call.result.raised
       /\ ~last_call.result.decision.allow
       /\ last_call.result.decision.qty = 0
       /\ last_call.result.decision.reason # NoReason

\* C12 as stated: run on an empty bar series surfaces an error to its
\* caller, so it returns no result.
C12_EmptySeriesFailsTheRun ==
    len_df_bars = 0 => results = <<>>

-----------------------------------------------------------------------------
(* Candidate generation: jcq/strategy/candidates.py *)

\* Prices and levels are whole numbers of quarter points and the ATR an even
\* number of them, so that the halves the code takes are exact.  A feature
\* value is a number or NaN; every comparison with NaN is false and every
\* sum with NaN is NaN, so a block whose prices are NaN appends nothing.
NaN == [nan |-> TRUE]
Num(v) == [nan |-> FALSE, v |-> v]

\* rr = reward_points / risk_points if risk_points > 0 else 0
RewardRisk(risk_points, reward_points) ==
    IF risk_points > 0 THEN <<reward_points, risk_points>> ELSE RatOfInt(0)

\* min_rr <= rr <= max_rr
InBand(cfg, rr) == RatLE(cfg.min_rr, rr) /\ RatLE(rr, cfg.max_rr)

\* rr >= min_rr
AboveMinRR(cfg, rr) == RatLE(cfg.min_rr, rr)

Candidate(side, entry, stop, target, risk_points, reward_points, family, tag) ==
    [ side |-> side, entry |-> entry, stop |-> stop, target |-> target,
      risk_points |-> risk_points, reward_points |-> reward_points,
      family |-> family, tag |-> tag ]

\* lines 48-88: the long and the short candidate of one ATR multiplier k,
\* held as twice its value
VwapAt(cfg, current_price, vwap, atr, k2) ==
    LET entry_long == vwap - (k2 * atr) \div 2
        stop_long == entry_long - atr \div 2
        target_long == entry_long + (atr * (k2 + 2)) \div 2
        risk_long == Abs(entry_long - stop_long)
        reward_long == Abs(target_long - entry_long)
        entry_short == vwap + (k2 * atr) \div 2
        stop_short == entry_short + atr \div 2
        target_short == entry_short - (atr * (k2 + 2)) \div 2
        risk_short == Abs(entry_short - stop_short)
        reward_short == Abs(entry_short - target_short)
    IN (IF /\ stop_long < current_price
           /\ current_price < target_long
           /\ InBand(cfg, RewardRisk(risk_long, reward_long))
        THEN << Candidate("long", entry_long, stop_long, target_long,
                          risk_long, reward_long, "vwap", k2) >>
        ELSE << >>)
       \o
       (IF /\ target_short < current_price
           /\ current_price < stop_short
           /\ InBand(cfg, RewardRisk(risk_short, reward_short))
        THEN << Candidate("short", entry_short, stop_short, target_short,
                          risk_short, reward_short, "vwap", k2) >>
        ELSE << >>)

\* for k in multipliers
RECURSIVE VwapLoop(_, _, _, _, _)
VwapLoop(cfg, current_price, vwap, atr, ks) ==
    IF ks = << >> THEN << >>
    ELSE VwapAt(cfg, current_price, vwap, atr, Head(ks))
         \o VwapLoop(cfg, current_price, vwap, atr, Tail(ks))

\* lines 40-88: the block runs when the family is enabled and session_vwap
\* is not NaN; it is the block that binds the local name atr
VwapRuns(latest, cfg) == cfg.vwap_enabled /\ ~latest.session_vwap.nan

VwapCandidates(latest, cfg) ==
    IF VwapRuns(latest, cfg) /\ ~latest.atr_14.nan
    THEN VwapLoop(cfg, latest.close, latest.session_vwap.v, latest.atr_14.v,
                  cfg.atr_multipliers2)
    ELSE << >>

\* lines 91-139 and 142-188: the retest of a low level (long) and of a high
\* level (short), the stop half an ATR beyond the level, the target the
\* other level; only min_rr is tested
RetestCandidates(cfg, current_price, high, low, atr, tolerance, family) ==
    LET stop_long == low - atr \div 2
        risk_long == Abs(low - stop_long)
        reward_long == Abs(high - low)
        stop_short == high + atr \div 2
        risk_short == Abs(high - stop_short)
        reward_short == Abs(high - low)
    IN (IF /\ Abs(current_price - low) <= tolerance
           /\ AboveMinRR(cfg, RewardRisk(risk_long, reward_long))
        THEN << Candidate("long", low, stop_long, high, risk_long, reward_long,
                          family, "low") >>
        ELSE << >>)
       \o
       (IF /\ Abs(current_price - high) <= tolerance
           /\ AboveMinRR(cfg, RewardRisk(risk_short, reward_short))
        THEN << Candidate("short", high, stop_short, low, risk_short, reward_short,
                          family, "high") >>
        ELSE << >>)

\* the opening-range block reads the local name atr
OpeningRangeReads(latest, cfg) ==
    /\ cfg.opening_range_enabled
    /\ ~latest.opening_range_high.nan
    /\ ~latest.opening_range_low.nan
    /\ \/ Abs(latest.close - latest.opening_range_low.v) <= cfg.tolerance
       \/ Abs(latest.close - latest.opening_range_high.v) <= cfg.tolerance

OpeningRangeCandidates(latest, cfg) ==
    IF OpeningRangeReads(latest, cfg) /\ ~latest.atr_14.nan
    THEN RetestCandidates(cfg, latest.close, latest.opening_range_high.v,
                          latest.opening_range_low.v, latest.atr_14.v,
                          cfg.tolerance, "opening_range")
    ELSE << >>

PriorSessionCandidates(latest, cfg) ==
    IF /\ cfg.prior_session_enabled
       /\ ~latest.prior_high.nan
       /\ ~latest.prior_low.nan
       /\ ~latest.atr_14.nan
    THEN RetestCandidates(cfg, latest.close, latest.prior_high.v, latest.prior_low.v,
                          latest.atr_14.v, cfg.tolerance, "prior_session")
    ELSE << >>

\* recent.iloc[a:b]["high"].max() and ["low"].min(), positions from 0
MaxHigh(recent, a, b) ==
    CHOOSE h \in { recent[j + 1].high : j \in a..(b - 1) } :
        \A j \in a..(b - 1) : recent[j + 1].high <= h

MinLow(recent, a, b) ==
    CHOOSE l \in { recent[j + 1].low : j \in a..(b - 1) } :
        \A j \in a..(b - 1) : recent[j + 1].low >= l

\* lines 200-220: the short candidate of a pivot high at position k
SwingHighAt(cfg, current_price, atr, recent, k) ==
    LET swing_high == recent[k + 1].high
        stop == swing_high + atr \div 2
        target == current_price - ((swing_high - current_price) * 3) \div 2
        risk_points == Abs(swing_high - stop)
        reward_points == Abs(swing_high - target)
    IN IF /\ swing_high = MaxHigh(recent, Max(k - cfg.pivot_lookback, 0),
                                  Min(k + cfg.pivot_lookback + 1, Len(recent)))
          /\ swing_high - current_price >= cfg.min_swing_size_atr * atr
          /\ AboveMinRR(cfg, RewardRisk(risk_points, reward_points))
       THEN << Candidate("short", swing_high, stop, target, risk_points,
                         reward_points, "swing", "swing_high") >>
       ELSE << >>

\* lines 223-246: the long candidate of a pivot low at position k
SwingLowAt(cfg, current_price, atr, recent, k) ==
    LET swing_low == recent[k + 1].low
        stop == swing_low - atr \div 2
        target == current_price + ((current_price - swing_low) * 3) \div 2
        risk_points == Abs(swing_low - stop)
        reward_points == Abs(target - swing_low)
    IN IF /\ swing_low = MinLow(recent, Max(k - cfg.pivot_lookback, 0),
                                Min(k + cfg.pivot_lookback + 1, Len(recent)))
          /\ current_price - swing_low >= cfg.min_swing_size_atr * atr
          /\ AboveMinRR(cfg, RewardRisk(risk_points, reward_points))
       THEN << Candidate("long", swing_low, stop, target, risk_points,
                         reward_points, "swing", "swing_low") >>
       ELSE << >>

\* for i in range(lookback, len(recent) - lookback), from position k on
RECURSIVE SwingHighLoop(_, _, _, _, _)
SwingHighLoop(cfg, current_price, atr, recent, k) ==
    IF k >= Len(recent) - cfg.pivot_lookback THEN << >>
    ELSE SwingHighAt(cfg, current_price, atr, recent, k)
         \o SwingHighLoop(cfg, current_price, atr, recent, k + 1)

RECURSIVE SwingLowLoop(_, _, _, _, _)
SwingLowLoop(cfg, current_price, atr, recent, k) ==
    IF k >= Len(recent) - cfg.pivot_lookback THEN << >>
    ELSE SwingLowAt(cfg, current_price, atr, recent, k)
         \o SwingLowLoop(cfg, current_price, atr, recent, k + 1)

\* df_features.iloc[-lookback*2:], of a table whose rows are rows
LastRows(rows, n) ==
    IF Len(rows) <= n THEN rows ELSE SubSeq(rows, Len(rows) - n + 1, Len(rows))

\* lines 191-246
SwingCandidates(df, cfg) ==
    LET latest == df[Len(df)]
        recent == LastRows(df, cfg.pivot_lookback * 2)
    IN IF /\ cfg.swing_enabled
          /\ Len(df) > cfg.pivot_lookback * 2
          /\ ~latest.atr_14.nan
       THEN SwingHighLoop(cfg, latest.close, latest.atr_14.v, recent, cfg.pivot_lookback)
            \o SwingLowLoop(cfg, latest.close, latest.atr_14.v, recent, cfg.pivot_lookback)
       ELSE << >>

\* generate_candidates on a feature table df whose columns are all present.
\* The opening-range block reads the local name atr, which only the VWAP
\* block has bound by then: reading it unbound raises UnboundLocalError.
GenerateCandidates(df, cfg) ==
    IF df = << >> THEN [ raised |-> FALSE, candidates |-> << >> ]
    ELSE LET latest == df[Len(df)]
         IN IF latest.close = 0 THEN [ raised |-> FALSE, candidates |-> << >> ]
            ELSE IF OpeningRangeReads(latest, cfg) /\ ~VwapRuns(latest, cfg)
            THEN [ raised |-> TRUE, error |-> "UnboundLocalError: atr" ]
            ELSE [ raised |-> FALSE,
                   candidates |-> VwapCandidates(latest, cfg)
                                  \o OpeningRangeCandidates(latest, cfg)
                                  \o PriorSessionCandidates(latest, cfg)
                                  \o SwingCandidates(df, cfg) ]

\* ---- generate_candidates called on its own

\* the defaults of lines 46, 59, 98, 193, 194, and the same with the VWAP
\* family switched off
DefaultCandidatesConfig ==
    [ min_rr |-> <<3, 2>>, max_rr |-> <<5, 1>>,
      vwap_enabled |-> TRUE, opening_range_enabled |-> TRUE,
      prior_session_enabled |-> TRUE, swing_enabled |-> TRUE,
      atr_multipliers2 |-> <<1, 2, 3, 4>>, tolerance |-> 2,
      pivot_lookback |-> 1, min_swing_size_atr |-> 1 ]

GenConfigs ==
    { DefaultCandidatesConfig,
      [DefaultCandidatesConfig EXCEPT !.vwap_enabled = FALSE] }

LevelPairs == { <<NaN, NaN>>, <<Num(44), Num(40)>>, <<Num(60), Num(40)>> }

LatestRows ==
    { [ close |-> c, high |-> c + 2, low |-> c - 2, session_vwap |-> v, atr_14 |-> a,
        opening_range_high |-> o[1], opening_range_low |-> o[2],
        prior_high |-> p[1], prior_low |-> p[2] ] :
      c \in {0, 40, 42}, v \in {NaN, Num(40), Num(44)},
      a \in {NaN, Num(0), Num(2), Num(4)}, o \in LevelPairs, p \in LevelPairs }

EarlierRow ==
    [ close |-> 40, high |-> 46, low |-> 36, session_vwap |-> Num(40),
      atr_14 |-> Num(2), opening_range_high |-> NaN, opening_range_low |-> NaN,
      prior_high |-> NaN, prior_low |-> NaN ]

GenTables ==
    { << >> } \cup { << r >> : r \in LatestRows }
              \cup { << EarlierRow, EarlierRow, r >> : r \in LatestRows }

GenInit ==
    /\ \E df \in GenTables, cfg \in GenConfigs :
          gen = [ pc |-> "ready", df |-> df, cfg |-> cfg ]
    /\ RankIdle
    /\ SimIdle
    /\ AuxIdle
    /\ RiskIdle
    /\ EngineIdle
    /\ ExecIdle

GenerateCandidatesCall ==
    /\ gen.pc = "ready"
    /\ gen' = [ pc |-> "returned", df |-> gen.df, cfg |-> gen.cfg,
                result |-> GenerateCandidates(gen.df, gen.cfg) ]
    /\ UNCHANGED <<ranking, simVars, riskVars, callVars, engineVars, execVars, auxVars>>

GenNext == GenerateCandidatesCall

SpecGen == GenInit /\ [][GenNext]_vars

\* C13 (as stated): every candidate generate_candidates returns, of whatever
\* family, has risk_points > 0 and reward_points / risk_points within
\* [min_rr, max_rr].
C13_CandidatesInsideBand ==
    (gen.pc = "returned" /\ ~gen.result.raised)
    => \A k \in 1..Len(gen.result.candidates) :
          LET c == gen.result.candidates[k]
          IN /\ c.risk_points > 0
             /\ InBand(gen.cfg, <<c.reward_points, c.risk_points>>)

\* the latest row of the table handed to generate_candidates
UndefinedInputs ==
    /\ gen.df # << >>
    /\ \/ gen.df[Len(gen.df)].atr_14.nan
       \/ gen.df[Len(gen.df)].session_vwap.nan

\* C25 (as stated): generate_candidates returns a list, and does not raise,
\* when the ATR or the VWAP of the latest row is undefined, whichever rule
\* families are enabled.
C25_UndefinedNeverRaises ==
    (gen.pc = "returned" /\ UndefinedInputs) => ~gen.result.raised

-----------------------------------------------------------------------------
(* Monte Carlo simulation: jcq/sim/monte_carlo.py *)

\* np.random's global generator, as a generator with RngModulus states.
\* rng.state is its state and rng.seed the argument of the latest
\* np.random.seed call (-1: never seeded, the state comes from the system).
RngModulus == 8

RngNext(s) == (5 * s + 3) % RngModulus

\* np.random.seed(seed): the state becomes a function of the seed alone
SeedState(seed) == seed % RngModulus

\* a position in 0..n-1 drawn from the state s
RngIndex(s, n) == (s * n) \div RngModulus

\* np.random.choice(r_stream, size=len(r_stream), replace=True), the first
\* k draws done; gives the sample and the generator's state afterwards
RECURSIVE Choice(_, _, _, _)
Choice(r_stream, k, s, sample) ==
    IF k = Len(r_stream) THEN [ sample |-> sample, state |-> s ]
    ELSE LET s1 == RngNext(s)
         IN Choice(r_stream, k + 1, s1,
                   Append(sample, r_stream[RngIndex(s1, Len(r_stream)) + 1]))

\* np.cumsum(sample), with an initial balance of 1 added to every point
\* (not what the code does)
RECURSIVE CumSumFromOne(_)
CumSumFromOne(sample) ==
    IF sample = << >> THEN << >>
    ELSE LET front == CumSumFromOne(SubSeq(sample, 1, Len(sample) - 1))
         IN Append(front, (IF front = << >> THEN 1 ELSE front[Len(front)])
                          + sample[Len(sample)])

\* np.cumsum(sample)
RECURSIVE CumSum(_)
CumSum(sample) ==
    IF sample = << >> THEN << >>
    ELSE LET front == CumSum(SubSeq(sample, 1, Len(sample) - 1))
         IN Append(front, (IF front = << >> THEN 0 ELSE front[Len(front)])
                          + sample[Len(sample)])

\* np.maximum.accumulate(equity)
RECURSIVE MaximumAccumulate(_)
MaximumAccumulate(equity) ==
    IF equity = << >> THEN << >>
    ELSE LET front == MaximumAccumulate(SubSeq(equity, 1, Len(equity) - 1))
         IN Append(front, IF front = << >> THEN equity[Len(equity)]
                          ELSE Max(front[Len(front)], equity[Len(equity)]))

\* np.min, np.max and np.mean of a non-empty array of whole numbers
ArrayMin(a) == CHOOSE x \in { a[k] : k \in 1..Len(a) } : \A k \in 1..Len(a) : x <= a[k]

ArrayMax(a) == CHOOSE x \in { a[k] : k \in 1..Len(a) } : \A k \in 1..Len(a) : x >= a[k]

RECURSIVE ArraySum(_)
ArraySum(a) == IF a = << >> THEN 0 ELSE a[1] + ArraySum(Tail(a))

ArrayMean(a) == RatNorm(ArraySum(a), Len(a))

\* lines 35-47: the simulation loop with n passes left; gives the two result
\* arrays and the generator's state afterwards
RECURSIVE Simulations(_, _, _, _, _)
Simulations(r_stream, n, s, final_r_results, max_dd_results) ==
    IF n = 0
    THEN [ final_r_results |-> final_r_results, max_dd_results |-> max_dd_results,
           state |-> s ]
    ELSE LET drawn == Choice(r_stream, 0, s, << >>)
             equity == CumSum(drawn.sample)
             final_r == equity[Len(equity)]
             running_max == MaximumAccumulate(equity)
             drawdown == [ k \in 1..Len(equity) |-> equity[k] - running_max[k] ]
             max_dd == ArrayMin(drawdown)
         IN Simulations(r_stream, n - 1, drawn.state,
                        Append(final_r_results, final_r),
                        Append(max_dd_results, max_dd))

\* run_monte_carlo(df_trades, n_simulations) called with the generator in
\* state s: what it returns, its two local arrays, and the generator's state
\* afterwards.  df_trades is its r_mult column.  The standard deviations and
\* the VaR/CVaR keys are further functions of the same two arrays.
RunMonteCarlo(df_trades, n_simulations, s) ==
    IF df_trades = << >>
    THEN [ metrics |-> [ empty |-> TRUE ], final_r_results |-> << >>,
           max_dd_results |-> << >>, state |-> s ]
    ELSE LET sims == Simulations(df_trades, n_simulations, s, << >>, << >>)
         IN [ metrics |->
                [ empty |-> FALSE,
                  final_r_mean |-> ArrayMean(sims.final_r_results),
                  final_r_min |-> ArrayMin(sims.final_r_results),
                  final_r_max |-> ArrayMax(sims.final_r_results),
                  max_dd_mean |-> ArrayMean(sims.max_dd_results),
                  max_dd_min |-> ArrayMin(sims.max_dd_results),
                  max_dd_max |-> ArrayMax(sims.max_dd_results) ],
              final_r_results |-> sims.final_r_results,
              max_dd_results |-> sims.max_dd_results,
              state |-> sims.state ]

\* ---- a caller of run_monte_carlo in a process that shares np.random

MaxStream == 2
MaxSims == 2

RMults == {-1, 0, 1}
Seeds == {0, 1}

SimInit ==
    /\ \E s \in 0..(RngModulus - 1) : rng = [ state |-> s, seed |-> -1 ]
    /\ \E df \in SeqsUpTo(RMults, MaxStream), n \in 1..MaxSims :
          mc = [ df_trades |-> df, n_simulations |-> n, calls |-> << >> ]
    /\ GenIdle
    /\ RankIdle
    /\ AuxIdle
    /\ RiskIdle
    /\ EngineIdle
    /\ ExecIdle

\* np.random.seed(seed)
SeedCall ==
    /\ \E seed \in Seeds : rng' = [ state |-> SeedState(seed), seed |-> seed ]
    /\ UNCHANGED <<mc, stratVars, riskVars, callVars, engineVars, execVars, auxVars>>

\* some other code of the process draws a number from np.random
AmbientDraw ==
    /\ rng' = [rng EXCEPT !.state = RngNext(rng.state)]
    /\ UNCHANGED <<mc, stratVars, riskVars, callVars, engineVars, execVars, auxVars>>

\* run_monte_carlo(df_trades, n_simulations); the caller keeps its two
\* latest calls
RunMonteCarloCall ==
    LET r == RunMonteCarlo(mc.df_trades, mc.n_simulations, rng.state)
        call == [ seed |-> rng.seed, metrics |-> r.metrics,
                  final_r_results |-> r.final_r_results,
                  max_dd_results |-> r.max_dd_results ]
    IN /\ rng' = [rng EXCEPT !.state = r.state]
       /\ mc' = [mc EXCEPT !.calls = IF Len(@) < 2 THEN Append(@, call)
                                     ELSE << @[2], call >>]
       /\ UNCHANGED <<stratVars, riskVars, callVars, engineVars, execVars, auxVars>>

SimNext ==
    \/ SeedCall
    \/ AmbientDraw
    \/ RunMonteCarloCall

SpecSim == SimInit /\ [][SimNext]_vars

AllZero(df) == \A k \in 1..Len(df) : df[k] = 0

\* C14: on a non-empty stream of all-zero r_mult, whatever the generator
\* draws, every bootstrap pass ends at 0 with a drawdown of 0, and
\* final_r_mean and max_dd_mean are exactly 0.
C14_AllZeroStreamGivesZero ==
    (mc.df_trades # << >> /\ AllZero(mc.df_trades))
    => \A c \in 1..Len(mc.calls) :
          LET r == mc.calls[c]
          IN /\ ~r.metrics.empty
             /\ r.metrics.final_r_mean = RatOfInt(0)
             /\ r.metrics.max_dd_mean = RatOfInt(0)
             /\ Len(r.final_r_results) = mc.n_simulations
             /\ \A k \in 1..mc.n_simulations :
                   r.final_r_results[k] = 0 /\ r.max_dd_results[k] = 0

C14_Witness ==
    /\ Len(mc.df_trades) = MaxStream
    /\ AllZero(mc.df_trades)
    /\ mc.n_simulations = MaxSims
    /\ Len(mc.calls) = 2
    /\ mc.calls[1].seed # mc.calls[2].seed
    /\ mc.calls[2].metrics.final_r_mean = RatOfInt(0)

\* C15 (as stated): two calls with the same arguments and the same seed
\* return the same metrics, whatever happened in the process before them.
C15_SameSeedSameResult ==
    \A a, b \in 1..Len(mc.calls) :
        (mc.calls[a].seed # -1 /\ mc.calls[a].seed = mc.calls[b].seed)
        => mc.calls[a].metrics = mc.calls[b].metrics

-----------------------------------------------------------------------------
(* Ranking: rank_candidates of jcq/strategy/scorer.py *)

\* A scored candidate carries ev_r, p_win and confidence, here whole numbers
\* of some common unit, and id, the position generation gave it.
\* key=lambda c: (c.get("ev_r", -999), c.get("p_win", 0), c.get("confidence", 0))
RankKey(c) ==
    << IF "ev_r" \in DOMAIN c THEN c.ev_r ELSE -999,
       IF "p_win" \in DOMAIN c THEN c.p_win ELSE 0,
       IF "confidence" \in DOMAIN c THEN c.confidence ELSE 0 >>

\* Python's order on tuples
TupleLT(a, b) ==
    \/ a[1] < b[1]
    \/ a[1] = b[1] /\ a[2] < b[2]
    \/ a[1] = b[1] /\ a[2] = b[2] /\ a[3] < b[3]

\* One step of a descending sort that puts a candidate in front of the
\* earlier candidates with the same key (not what sorted does)
RECURSIVE InsertBeforeEquals(_, _)
InsertBeforeEquals(ranked, c) ==
    IF ranked = << >> THEN << c >>
    ELSE IF TupleLT(RankKey(c), RankKey(ranked[Len(ranked)]))
         THEN Append(ranked, c)
         ELSE Append(InsertBeforeEquals(SubSeq(ranked, 1, Len(ranked) - 1), c),
                     ranked[Len(ranked)])

\* sorted(..., reverse=True) is stable: a candidate goes behind every earlier
\* candidate whose key is not smaller than its own
RECURSIVE InsertDescending(_, _)
InsertDescending(ranked, c) ==
    IF ranked = << >> THEN << c >>
    ELSE IF ~TupleLT(RankKey(ranked[Len(ranked)]), RankKey(c))
         THEN Append(ranked, c)
         ELSE Append(InsertDescending(SubSeq(ranked, 1, Len(ranked) - 1), c),
                     ranked[Len(ranked)])

\* sorted(candidates, key=..., reverse=True)
RECURSIVE SortedDescending(_)
SortedDescending(candidates) ==
    IF candidates = << >> THEN << >>
    ELSE InsertDescending(SortedDescending(SubSeq(candidates, 1, Len(candidates) - 1)),
                          candidates[Len(candidates)])

\* ranked[:top_k], top_k >= 0
Slice(ranked, top_k) == SubSeq(ranked, 1, Min(top_k, Len(ranked)))

RankCandidates(candidates, top_k) ==
    IF candidates = << >> THEN << >>
    ELSE Slice(SortedDescending(candidates), top_k)

\* ---- rank_candidates called on its own

MaxCandidates == 3
MaxTopK == 3

Scores == {0, 1}

\* the scored candidates of one bar, in generation order
RECURSIVE ScoredLists(_)
ScoredLists(n) ==
    IF n = 0 THEN { << >> }
    ELSE LET shorter == ScoredLists(n - 1)
         IN shorter \cup
            { Append(cs, [ id |-> Len(cs) + 1, ev_r |-> e, p_win |-> p, confidence |-> q ]) :
              cs \in { l \in shorter : Len(l) = n - 1 },
              e \in Scores, p \in Scores, q \in Scores }

RankInit ==
    /\ \E cs \in ScoredLists(MaxCandidates), k \in 0..MaxTopK :
          ranking = [ pc |-> "ready", candidates |-> cs, top_k |-> k ]
    /\ GenIdle
    /\ SimIdle
    /\ AuxIdle
    /\ RiskIdle
    /\ EngineIdle
    /\ ExecIdle

RankCandidatesCall ==
    /\ ranking.pc = "ready"
    /\ ranking' = [ pc |-> "returned", candidates |-> ranking.candidates,
                    top_k |-> ranking.top_k,
                    ranked |-> RankCandidates(ranking.candidates, ranking.top_k) ]
    /\ UNCHANGED <<gen, simVars, riskVars, callVars, engineVars, execVars, auxVars>>

RankNext == RankCandidatesCall

SpecRank == RankInit /\ [][RankNext]_vars

\* a is ranked ahead of b: by ev_r, then p_win, then confidence, each
\* descending, then by generation order
Ahead(a, b) ==
    \/ a.ev_r > b.ev_r
    \/ a.ev_r = b.ev_r /\ a.p_win > b.p_win
    \/ a.ev_r = b.ev_r /\ a.p_win = b.p_win /\ a.confidence > b.confidence
    \/ a.ev_r = b.ev_r /\ a.p_win = b.p_win /\ a.confidence = b.confidence /\ a.id < b.id

\* C16: rank_candidates returns min(top_k, n) of the candidates, in the order
\* ev_r, p_win, confidence descending with ties in generation order, and they
\* are the first of that order: every candidate left out comes behind them.
C16_RankedIsPrefixOfStableOrder ==
    ranking.pc = "returned"
    => LET cs == ranking.candidates
           out == ranking.ranked
       IN /\ Len(out) = Min(ranking.top_k, Len(cs))
          /\ \A k \in 1..Len(out) : \E j \in 1..Len(cs) : out[k] = cs[j]
          /\ \A k, l \in 1..Len(out) : k < l => Ahead(out[k], out[l])
          /\ \A j \in 1..Len(cs) :
                (\A k \in 1..Len(out) : out[k] # cs[j])
                => \A k \in 1..Len(out) : Ahead(out[k], cs[j])

C16_Witness ==
    /\ ranking.pc = "returned"
    /\ Len(ranking.candidates) = MaxCandidates
    /\ ranking.top_k = 2
    /\ RankKey(ranking.candidates[1]) = RankKey(ranking.candidates[3])
    /\ TupleLT(RankKey(ranking.candidates[2]), RankKey(ranking.candidates[1]))
    /\ ranking.ranked = << ranking.candidates[1], ranking.candidates[3] >>

-----------------------------------------------------------------------------
(* Claims about the entry bar and the exit bar of simulate_execution *)

\* the stop or the target condition holds on the bar at position k
ExitCondition(k) ==
    \/ StopHit(bars[k + 1], order.stop_price, order.side)
    \/ TargetHit(bars[k + 1], order.target_price, order.side)

EntryBarFills ==
    /\ order.entry_bar_idx < Len(bars)
    /\ bars[order.entry_bar_idx + 1].low <= order.entry_price
    /\ order.entry_price <= bars[order.entry_bar_idx + 1].high

ExitExists == \E k \in (order.entry_bar_idx + 1)..(Len(bars) - 1) : ExitCondition(k)

\* C17: the entry is taken on the bar at entry_bar_idx and nowhere else: the
\* result is None when that bar does not hold the entry price or lies past
\* the end of the series, whatever the later bars are, and an order whose
\* entry bar holds the price and that has an exit afterwards is executed,
\* its entry fill coming from that bar.
C17_EntryOnlyOnEntryBar ==
    exec_pc = "returned"
    => /\ ~EntryBarFills => exec_result = NoExecution
       /\ (EntryBarFills /\ ExitExists)
          => /\ exec_result.filled
             /\ exec_result.entry_fill
                  \in { order.entry_price, bars[order.entry_bar_idx + 1].open }

C17_Witness ==
    /\ exec_pc = "returned"
    /\ exec_result = NoExecution
    /\ order.entry_bar_idx = 0
    /\ Len(bars) = 3
    /\ ~EntryBarFills
    /\ bars[2].low <= order.entry_price
    /\ order.entry_price <= bars[2].high
    /\ ExitCondition(2)

\* C18: an execution ends on the first bar after the entry bar on which the
\* stop or the target condition holds, never on the entry bar; it fills at
\* exactly the stop price when the reason is "stop" and at exactly the target
\* price when it is "target"; without such a bar the result is None.
C18_ExitOnFirstLaterBar ==
    exec_pc = "returned"
    => /\ exec_result.filled
          => /\ exec_result.exit_bar_idx > order.entry_bar_idx
             /\ exec_result.exit_bar_idx < Len(bars)
             /\ ExitCondition(exec_result.exit_bar_idx)
             /\ \A k \in (order.entry_bar_idx + 1)..(exec_result.exit_bar_idx - 1) :
                   ~ExitCondition(k)
             /\ exec_result.exit_reason \in {"stop", "target"}
             /\ exec_result.exit_reason = "stop"
                => exec_result.exit_fill = order.stop_price
             /\ exec_result.exit_reason = "target"
                => exec_result.exit_fill = order.target_price
       /\ ~ExitExists => exec_result = NoExecution

C18_Witness ==
    /\ exec_pc = "returned"
    /\ exec_result.filled
    /\ order.entry_bar_idx = 0
    /\ ExitCondition(0)
    /\ ~ExitCondition(1)
    /\ exec_result.exit_bar_idx = 2
    /\ exec_result.exit_reason = "target"
    /\ exec_result.exit_fill = order.target_price

-----------------------------------------------------------------------------
(* Claims about the order of the limit checks and about the contract count *)

\* the three limits as size_position finds them for the day d
RealizedAtFloor(d) ==
    RatLE(RealizedOf(daily_realized_r, d), RatOfInt(-cfg_risk.daily_max_r))

TradesAtCeiling(d) == TradesOf(daily_trades, d) >= cfg_risk.max_trades_day

OpenRiskOverCeiling ==
    RatLT(RatOfInt(cfg_risk.max_open_risk_r), RatAdd(open_risk_r, RatOfInt(1)))

\* C19: a size_position call that gets past the sizing meets the limits in
\* the order daily realized-R floor, daily trade count, open risk, and is
\* rejected for the first one violated, also when later ones are violated
\* too; the reason names that limit, the value measured and the bound; with
\* none violated the call allows.
C19_FirstViolatedLimitRejects ==
    [][ (SizeStep /\ Sizable(last_call'.candidate, last_call'.symbol))
          => LET d == last_call'.trade_date
                 reason == last_call'.result.decision.reason
             IN IF RealizedAtFloor(d)
                THEN /\ RejectedFor(last_call', "daily_max_r")
                     /\ reason.measured = Hundredths(RealizedOf(daily_realized_r, d))
                     /\ reason.bound = cfg_risk.daily_max_r
                ELSE IF TradesAtCeiling(d)
                THEN /\ RejectedFor(last_call', "max_trades_day")
                     /\ reason.measured = TradesOf(daily_trades, d)
                     /\ reason.bound = cfg_risk.max_trades_day
                ELSE IF OpenRiskOverCeiling
                THEN /\ RejectedFor(last_call', "max_open_risk_r")
                     /\ reason.measured = Hundredths(RatAdd(open_risk_r, RatOfInt(1)))
                     /\ reason.bound = cfg_risk.max_open_risk_r
                ELSE /\ ~last_call'.result.raised
                     /\ last_call'.result.decision.allow ]_vars

\* all three limits violated at once, and the call rejected for the first
C19_Witness ==
    /\ SizeReturned
    /\ RealizedAtFloor(last_call.trade_date)
    /\ TradesAtCeiling(last_call.trade_date)
    /\ OpenRiskOverCeiling
    /\ RejectedFor(last_call, "daily_max_r")
    /\ last_call.result.decision.qty >= 1

\* C20: for risk_points > 0 and a known symbol, size_position rejects with
\* qty 0 when floor(dollars_per_R / (risk_points * point_value)) <= 0 for the
\* call's symbol; a decision with allow = true has a whole qty >= 1, the
\* floor for the symbol the decision names, so that
\* qty * risk_points * point_value <= dollars_per_R.
C20_ContractsWithinOneR ==
    ( /\ last_call.op = "size_position"
      /\ last_call.candidate.risk_points > 0
      /\ KnownSymbol(last_call.symbol) )
    => LET risk_points == last_call.candidate.risk_points
           dollars_per_r == cfg_risk.dollars_per_r
           dec == last_call.result.decision
       IN /\ ~last_call.result.raised
          /\ dollars_per_r \div (risk_points * CONTRACT_SPECS[last_call.symbol].point_value) <= 0
             => ~dec.allow /\ dec.qty = 0
          /\ dec.allow
             => LET point_value == CONTRACT_SPECS[dec.symbol].point_value
                IN /\ dec.qty \in Nat
                   /\ dec.qty >= 1
                   /\ dec.qty * risk_points * point_value <= dollars_per_r
                   /\ (dec.qty + 1) * risk_points * point_value > dollars_per_r

C20_Witness ==
    /\ SizeReturned
    /\ last_call.result.decision.allow
    /\ last_call.result.decision.qty * last_call.candidate.risk_points
         * CONTRACT_SPECS[last_call.result.decision.symbol].point_value
       < cfg_risk.dollars_per_r

-----------------------------------------------------------------------------
(* Claims about the micro preference and the daily counters *)

\* the micro contract is preferred for the call, exists for its symbol and
\* gives at least one contract
MicroApplies(call) ==
    /\ cfg_risk.prefer_micro
    /\ call.symbol = "NQ"
    /\ cfg_risk.dollars_per_r
         \div (call.candidate.risk_points * CONTRACT_SPECS["MNQ"].point_value) >= 1

\* C21: an allowed decision names MNQ and carries the MNQ contract count
\* floor(dollars_per_R / (risk_points * MNQ point value)) whenever the micro
\* is preferred, the call's symbol is NQ and the MNQ count is at least 1;
\* in every other case it keeps the symbol of the call.
C21_MicroPreferred ==
    (SizeReturned /\ last_call.result.decision.allow)
    => LET dec == last_call.result.decision
       IN IF MicroApplies(last_call)
          THEN /\ dec.symbol = "MNQ"
               /\ dec.qty = cfg_risk.dollars_per_r
                              \div (last_call.candidate.risk_points
                                    * CONTRACT_SPECS["MNQ"].point_value)
          ELSE dec.symbol = last_call.symbol

C21_Witness ==
    /\ SizeReturned
    /\ last_call.result.decision.allow
    /\ MicroApplies(last_call)
    /\ last_call.result.decision.symbol = "MNQ"
    /\ last_call.result.decision.qty > 1

\* what a call credits to the day d: one trade for add_trade and for a
\* settlement, the r value for add_realized_r and for a settlement
TradesCredited(call, d) ==
    IF /\ call.op \in {"add_trade", "settle"}
       /\ call.trade_date = d
    THEN 1 ELSE 0

RealizedCredited(call, d) ==
    IF /\ call.op \in {"add_realized_r", "settle"}
       /\ call.trade_date = d
    THEN call.r ELSE RatOfInt(0)

\* C22: a day not yet referenced counts as zero and a day once entered is
\* never reset: every call changes each day's trade count and realized R by
\* exactly what it credits to that day -- nothing for reset_daily, the
\* checks and size_position, nothing for any day other than the call's --
\* keeps the days already entered and enters no day but its own.  A day's
\* trade count is therefore the number of add_trade calls for it and its
\* realized R the sum of the r values credited to it.
C22_CountersOnlyAccumulate ==
    [][ calls' = calls + 1
          => /\ \A d \in Days :
                   /\ TradesOf(daily_trades', d)
                        = TradesOf(daily_trades, d) + TradesCredited(last_call', d)
                   /\ RealizedOf(daily_realized_r', d)
                        = RatAdd(RealizedOf(daily_realized_r, d),
                                 RealizedCredited(last_call', d))
             /\ DOMAIN daily_trades \subseteq DOMAIN daily_trades'
             /\ DOMAIN daily_realized_r \subseteq DOMAIN daily_realized_r'
             /\ \A d \in (DOMAIN daily_trades' \ DOMAIN daily_trades)
                         \cup (DOMAIN daily_realized_r' \ DOMAIN daily_realized_r) :
                   "trade_date" \in DOMAIN last_call' /\ last_call'.trade_date = d ]_vars

\* reset_daily on a day that holds a trade and a realized R, another day
\* being entered with zeros
C22_Witness ==
    /\ last_call.op = "reset_daily"
    /\ TradesOf(daily_trades, last_call.trade_date) = 1
    /\ RealizedOf(daily_realized_r, last_call.trade_date) = <<3, 2>>
    /\ \E d \in DOMAIN daily_trades :
          /\ d # last_call.trade_date
          /\ daily_trades[d] = 0
          /\ daily_realized_r[d] = RatOfInt(0)

-----------------------------------------------------------------------------
(* Bayesian adjustment: jcq/models/bayes.py *)

\* Probabilities, outcomes and Brier scores are exact rationals.
RatMul(a, b) == RatNorm(a[1] * b[1], a[2] * b[2])
RatSub(a, b) == RatAdd(a, RatNeg(b))
RatMin(a, b) == IF RatLE(a, b) THEN a ELSE b

\* adjust returns its argument untouched below this many recorded outcomes
MinOutcomes == 10

\* BayesianAdjustment(window, shrinkage_factor)
NewAdjuster(window, shrinkage_factor) ==
    [ window |-> window, shrinkage_factor |-> shrinkage_factor,
      recent_probs |-> << >>, recent_outcomes |-> << >> ]

\* update(prob, outcome); known is FALSE for outcome=None
Update(b, prob, known, outcome) ==
    LET probs == Append(b.recent_probs, prob)
        outcomes == IF known THEN Append(b.recent_outcomes, outcome)
                    ELSE b.recent_outcomes
    IN [ b EXCEPT
           !.recent_probs = IF Len(probs) > b.window THEN Tail(probs) ELSE probs,
           !.recent_outcomes = IF Len(outcomes) > b.window THEN Tail(outcomes)
                               ELSE outcomes ]

\* sum of (p - o) ** 2 over zip(recent_probs_window, recent_outcomes)
RECURSIVE BrierSum(_, _)
BrierSum(probs, outcomes) ==
    IF probs = << >> \/ outcomes = << >> THEN RatOfInt(0)
    ELSE LET e == RatSub(Head(probs), Head(outcomes))
         IN RatAdd(RatMul(e, e), BrierSum(Tail(probs), Tail(outcomes)))

\* np.mean(brier_scores), recent_probs_window being the last
\* len(recent_outcomes) entries of recent_probs
AvgBrier(b) ==
    LET n == Len(b.recent_outcomes)
        m == Len(b.recent_probs)
        window == SubSeq(b.recent_probs, Max(m - n, 0) + 1, m)
    IN RatMul(BrierSum(window, b.recent_outcomes), <<1, Min(n, m)>>)

\* adjust(prob): the pair (adjusted_prob, confidence)
Adjust(b, prob) ==
    IF Len(b.recent_outcomes) < MinOutcomes
    THEN [ adjusted_prob |-> prob, confidence |-> <<1, 2>> ]
    ELSE LET avg_brier == AvgBrier(b)
             excess == RatMul(RatSub(avg_brier, <<1, 4>>), RatOfInt(4))
             shrinkage == RatMul(b.shrinkage_factor, excess)
         IN [ adjusted_prob |->
                IF RatLT(<<3, 10>>, avg_brier)
                THEN RatAdd(RatMul(prob, RatSub(RatOfInt(1), shrinkage)),
                            RatMul(<<1, 2>>, shrinkage))
                ELSE prob,
              confidence |->
                RatMax(RatOfInt(0),
                       RatMin(RatOfInt(1), RatSub(RatOfInt(1), excess))) ]

\* ---- an adjuster fed with predictions and asked to adjust

MaxUpdates == 2

Probs == { <<1, 10>>, <<9, 10>>, <<1, 1>> }
Outcomes == { <<0, 1>>, <<1, 1>> }
ShrinkageFactors == { <<1, 10>>, <<1, 2>>, <<1, 1>> }
Windows == {10, 100}

\* n updates with the same prediction and outcome
RECURSIVE Fed(_, _, _, _)
Fed(b, n, prob, outcome) ==
    IF n = 0 THEN b ELSE Fed(Update(b, prob, TRUE, outcome), n - 1, prob, outcome)

\* the adjuster after no update, or after MinOutcomes - 1 or MinOutcomes
\* updates with one prediction and one outcome
BayesInit ==
    /\ \E w \in Windows, f \in ShrinkageFactors, p \in Probs, o \in Outcomes,
          n \in {0, MinOutcomes - 1, MinOutcomes} :
          bayes = [ pc |-> "live", obj |-> Fed(NewAdjuster(w, f), n, p, o),
                    updates |-> 0, last |-> [ called |-> FALSE ] ]
    /\ ScoreIdle
    /\ GateIdle
    /\ GenIdle
    /\ RankIdle
    /\ SimIdle
    /\ RiskIdle
    /\ EngineIdle
    /\ ExecIdle

UpdateCall ==
    /\ bayes.updates < MaxUpdates
    /\ \E p \in Probs, known \in BOOLEAN, o \in Outcomes :
          bayes' = [bayes EXCEPT !.obj = Update(@, p, known, o),
                                 !.updates = @ + 1]
    /\ UNCHANGED <<scoring, gate, stratVars, simVars, riskVars, callVars,
                   engineVars, execVars>>

AdjustCall ==
    /\ \E p \in Probs :
          bayes' = [bayes EXCEPT !.last = [ called |-> TRUE, prob |-> p,
                                            result |-> Adjust(bayes.obj, p) ]]
    /\ UNCHANGED <<scoring, gate, stratVars, simVars, riskVars, callVars,
                   engineVars, execVars>>

BayesNext ==
    \/ UpdateCall
    \/ AdjustCall

SpecBayes == BayesInit /\ [][BayesNext]_vars

\* C26 (as stated): the adjusted probability lies between the raw
\* probability and 0.5, both included, for every shrinkage_factor in [0, 1]
\* and every history: it never crosses 0.5.
C26_AdjustedStaysOnItsSide ==
    bayes.last.called
    => LET prob == bayes.last.prob
           adjusted == bayes.last.result.adjusted_prob
       IN /\ RatLE(<<1, 2>>, prob) => RatLE(<<1, 2>>, adjusted) /\ RatLE(adjusted, prob)
          /\ RatLE(prob, <<1, 2>>) => RatLE(prob, adjusted) /\ RatLE(adjusted, <<1, 2>>)

-----------------------------------------------------------------------------
(* Scoring: score_candidates of jcq/strategy/scorer.py *)

\* P(win) with the side ignored (not what the code does)
PWinOfUp(side, prob_up, prob_down) == prob_up

\* lines 59-63
PWin(side, prob_up, prob_down) == IF side = "long" THEN prob_up ELSE prob_down

\* lines 51-95: one pass of the loop; the candidate scored, in a list of one,
\* or the empty list when it is skipped
ScoreOne(c, prob_up, prob_down, cfg, adjuster) ==
    LET raw == PWin(c.side, prob_up, prob_down)
        adjusting == adjuster.present /\ cfg.use_bayesian_adjustment
        adj == Adjust(adjuster.obj, raw)
        p_win == IF adjusting THEN adj.adjusted_prob ELSE raw
        confidence == IF adjusting THEN adj.confidence ELSE RatOfInt(1)
        R_target == RatNorm(c.reward_points, c.risk_points)
        ev_r == RatSub(RatMul(p_win, R_target), RatSub(RatOfInt(1), p_win))
    IN IF c.risk_points <= 0 THEN << >>
       ELSE IF RatLT(p_win, cfg.min_prob) \/ RatLT(cfg.max_prob, p_win) THEN << >>
       ELSE << [ id |-> c.id, side |-> c.side, risk_points |-> c.risk_points,
                 reward_points |-> c.reward_points, confidence |-> confidence,
                 prob_up |-> prob_up, prob_down |-> prob_down, p_win |-> p_win,
                 R_target |-> R_target, ev_r |-> ev_r, expected_r |-> ev_r ] >>

RECURSIVE ScoreLoop(_, _, _, _, _)
ScoreLoop(candidates, prob_up, prob_down, cfg, adjuster) ==
    IF candidates = << >> THEN << >>
    ELSE ScoreOne(Head(candidates), prob_up, prob_down, cfg, adjuster)
         \o ScoreLoop(Tail(candidates), prob_up, prob_down, cfg, adjuster)

\* score_candidates; features_empty is df_features.empty and proba what
\* model.predict_proba does: raise, or give the row (prob_down, prob_up)
ScoreCandidates(candidates, features_empty, proba, cfg, adjuster) ==
    IF candidates = << >> \/ features_empty THEN << >>
    ELSE IF proba.raised THEN << >>
    ELSE ScoreLoop(candidates, proba.prob_up, proba.prob_down, cfg, adjuster)

\* ---- score_candidates called on its own

MaxScored == 2

\* the candidates generation hands over, in generation order
RECURSIVE GeneratedLists(_)
GeneratedLists(n) ==
    IF n = 0 THEN { << >> }
    ELSE LET shorter == GeneratedLists(n - 1)
         IN shorter \cup
            { Append(cs, [ id |-> Len(cs) + 1, side |-> sd, risk_points |-> rk,
                           reward_points |-> rw ]) :
              cs \in { l \in shorter : Len(l) = n - 1 },
              sd \in {"long", "short"}, rk \in {0, 1, 2}, rw \in {2, 3} }

\* predict_proba raising, or a row that sums to 1
Predictions ==
    { [ raised |-> TRUE ] } \cup
    { [ raised |-> FALSE, prob_up |-> p, prob_down |-> RatSub(RatOfInt(1), p) ] :
      p \in { <<2, 5>>, <<9, 20>>, <<1, 2>>, <<19, 20>>, <<24, 25>> } }

\* the defaults of lines 73-74, with and without use_bayesian_adjustment
ScoringConfigs ==
    { [ min_prob |-> <<9, 20>>, max_prob |-> <<19, 20>>, use_bayesian_adjustment |-> u ] :
      u \in BOOLEAN }

\* no adjuster, or one that has seen MinOutcomes predictions of 1.0 fail
Adjusters ==
    { [ present |-> FALSE, obj |-> NewAdjuster(100, <<1, 10>>) ],
      [ present |-> TRUE,
        obj |-> Fed(NewAdjuster(100, <<1, 10>>), MinOutcomes, <<1, 1>>, <<0, 1>>) ] }

ScoreInit ==
    /\ \E cs \in GeneratedLists(MaxScored), e \in BOOLEAN, pr \in Predictions,
          cfg \in ScoringConfigs, a \in Adjusters :
          scoring = [ pc |-> "ready", candidates |-> cs, features_empty |-> e,
                      proba |-> pr, cfg |-> cfg, adjuster |-> a ]
    /\ BayesIdle
    /\ GateIdle
    /\ GenIdle
    /\ RankIdle
    /\ SimIdle
    /\ RiskIdle
    /\ EngineIdle
    /\ ExecIdle

ScoreCandidatesCall ==
    /\ scoring.pc = "ready"
    /\ scoring' = [ pc |-> "returned", candidates |-> scoring.candidates,
                    features_empty |-> scoring.features_empty,
                    proba |-> scoring.proba, cfg |-> scoring.cfg,
                    adjuster |-> scoring.adjuster,
                    scored |-> ScoreCandidates(scoring.candidates,
                                               scoring.features_empty, scoring.proba,
                                               scoring.cfg, scoring.adjuster) ]
    /\ UNCHANGED <<bayes, gate, stratVars, simVars, riskVars, callVars,
                   engineVars, execVars>>

ScoreNext == ScoreCandidatesCall

SpecScore == ScoreInit /\ [][ScoreNext]_vars

\* the call scores without Bayesian adjustment and has a prediction
PlainScoring ==
    /\ scoring.pc = "returned"
    /\ ~scoring.features_empty
    /\ ~scoring.proba.raised
    /\ ~(scoring.adjuster.present /\ scoring.cfg.use_bayesian_adjustment)

\* the win probability the claim gives a candidate
ClaimedPWin(c) ==
    IF c.side = "long" THEN scoring.proba.prob_up ELSE scoring.proba.prob_down

Kept(c) ==
    /\ c.risk_points > 0
    /\ RatLE(scoring.cfg.min_prob, ClaimedPWin(c))
    /\ RatLE(ClaimedPWin(c), scoring.cfg.max_prob)

\* C23: without Bayesian adjustment score_candidates returns, in input
\* order, exactly the candidates with risk_points > 0 and
\* min_prob <= p_win <= max_prob, p_win being prob_up for a long and
\* prob_down for a short; each carries R_target = reward_points / risk_points
\* and ev_r = p_win * R_target - (1 - p_win).
C23_ScoredAreTheKeptInOrder ==
    PlainScoring
    => LET kept == SelectSeq(scoring.candidates, Kept)
           out == scoring.scored
       IN /\ Len(out) = Len(kept)
          /\ \A k \in 1..Len(out) :
                /\ out[k].id = kept[k].id
                /\ out[k].side = kept[k].side
                /\ out[k].risk_points = kept[k].risk_points
                /\ out[k].reward_points = kept[k].reward_points
                /\ out[k].p_win = ClaimedPWin(kept[k])
                /\ out[k].R_target[1] * kept[k].risk_points
                     = kept[k].reward_points * out[k].R_target[2]
                /\ out[k].ev_r
                     = RatSub(RatMul(out[k].p_win, out[k].R_target),
                              RatSub(RatOfInt(1), out[k].p_win))

\* a short kept between two dropped candidates' places: the first candidate
\* dropped, the second, a short, returned alone
C23_Witness ==
    /\ PlainScoring
    /\ Len(scoring.candidates) = 2
    /\ scoring.candidates[1].side = "long"
    /\ scoring.candidates[1].risk_points > 0
    /\ scoring.candidates[2].side = "short"
    /\ Len(scoring.scored) = 1
    /\ scoring.scored[1].id = 2
    /\ scoring.scored[1].p_win = scoring.proba.prob_down

-----------------------------------------------------------------------------
(* Rule filter: apply_rules of jcq/strategy/rules.py, with is_rth and
   minutes_since_rth_open of jcq/core/time.py *)

\* A timestamp is its minute of the day in market time and whether it
\* carries a timezone.  Regular hours are 09:30 to 16:00.
RthOpenMinute == 570
RthCloseMinute == 960

\* is_rth: start_time <= time_market <= end_time
IsRth(ts) == RthOpenMinute <= ts.minute /\ ts.minute <= RthCloseMinute

\* minutes_since_rth_open: market_tz_obj is bound only on the branch of a
\* timestamp without timezone, and read on both
MinutesSinceRthOpen(ts) ==
    IF ts.aware THEN [ raised |-> TRUE, error |-> "UnboundLocalError: market_tz_obj" ]
    ELSE IF ts.minute < RthOpenMinute THEN [ raised |-> FALSE, none |-> TRUE ]
    ELSE [ raised |-> FALSE, none |-> FALSE, minutes |-> ts.minute - RthOpenMinute ]

\* lines 43-56 of rules.py: "raise", "reject" or "pass"
TimeFilter(cfg, ts) ==
    IF ~IsRth(ts) THEN "pass"
    ELSE LET m == MinutesSinceRthOpen(ts)
         IN IF m.raised THEN "raise"
            ELSE IF m.none THEN "pass"
            ELSE IF m.minutes < cfg.avoid_first_minutes THEN "reject"
            ELSE IF m.minutes > 16 * 60 - cfg.avoid_last_minutes THEN "reject"
            ELSE "pass"

\* lines 58-77: tz_convert raises on a timestamp without timezone
TradeWindows(cfg, ts) ==
    IF cfg.trade_windows = << >> THEN "pass"
    ELSE IF ~ts.aware THEN "raise"
    ELSE IF \E w \in 1..Len(cfg.trade_windows) :
               /\ cfg.trade_windows[w].start <= ts.minute
               /\ ts.minute <= cfg.trade_windows[w].end
         THEN "pass" ELSE "reject"

\* lines 79-85
RegimeRule(cfg, features, c) ==
    IF /\ cfg.disable_mean_reversion_in_trend
       /\ features.has_regime
       /\ features.trend
       /\ c.vwap
    THEN "reject" ELSE "pass"

\* lines 87-101: the ATR against the scaled rolling median, which is NaN
\* before ten rows; a comparison with NaN is false
VolatilityGate(cfg, features) ==
    IF ~features.has_atr \/ features.atr_median.nan THEN "pass"
    ELSE IF features.atr * 50 < features.atr_median.v * cfg.min_atr_percentile
         THEN "reject"
    ELSE IF features.atr * 50 > features.atr_median.v * cfg.max_atr_percentile
         THEN "reject"
    ELSE "pass"

\* one pass of the loop of apply_rules
RuleVerdict(c, features, cfg, ts) ==
    LET t == TimeFilter(cfg, ts)
        w == TradeWindows(cfg, ts)
    IN IF t = "raise" \/ w = "raise" THEN "raise"
       ELSE IF \/ t = "reject"
               \/ w = "reject"
               \/ RegimeRule(cfg, features, c) = "reject"
               \/ VolatilityGate(cfg, features) = "reject"
       THEN "reject" ELSE "pass"

RECURSIVE RulesLoop(_, _, _, _, _)
RulesLoop(candidates, features, cfg, ts, filtered) ==
    IF candidates = << >> THEN [ raised |-> FALSE, filtered |-> filtered ]
    ELSE LET v == RuleVerdict(Head(candidates), features, cfg, ts)
         IN IF v = "raise" THEN [ raised |-> TRUE ]
            ELSE RulesLoop(Tail(candidates), features, cfg, ts,
                           IF v = "pass" THEN Append(filtered, Head(candidates))
                           ELSE filtered)

ApplyRules(candidates, features, cfg, ts) ==
    RulesLoop(candidates, features, cfg, ts, << >>)

\* ---- apply_rules called on its own

MaxGated == 2

RECURSIVE RankedLists(_)
RankedLists(n) ==
    IF n = 0 THEN { << >> }
    ELSE LET shorter == RankedLists(n - 1)
         IN shorter \cup
            { Append(cs, [ id |-> Len(cs) + 1, vwap |-> v ]) :
              cs \in { l \in shorter : Len(l) = n - 1 }, v \in BOOLEAN }

\* 09:29 to 16:01, on and beside the edges of the two avoided spans
Timestamps ==
    [ aware : BOOLEAN, minute : {569, 570, 574, 575, 720, 955, 956, 958, 960, 961} ]

\* the defaults of lines 45-46, 79, 92-93, without trade windows and with
\* the window 10:00-15:00
RuleConfigs ==
    { [ avoid_first_minutes |-> 5, avoid_last_minutes |-> 5, trade_windows |-> w,
        disable_mean_reversion_in_trend |-> TRUE,
        min_atr_percentile |-> 10, max_atr_percentile |-> 90 ] :
      w \in { << >>, << [ start |-> 600, end |-> 900 ] >> } }

FeatureTables ==
    { [ has_regime |-> FALSE, trend |-> FALSE, has_atr |-> FALSE, atr |-> 0,
        atr_median |-> NaN ],
      [ has_regime |-> TRUE, trend |-> TRUE, has_atr |-> TRUE, atr |-> 5,
        atr_median |-> Num(5) ],
      [ has_regime |-> TRUE, trend |-> FALSE, has_atr |-> TRUE, atr |-> 0,
        atr_median |-> Num(5) ],
      [ has_regime |-> FALSE, trend |-> FALSE, has_atr |-> TRUE, atr |-> 10,
        atr_median |-> Num(5) ] }

GateInit ==
    /\ \E cs \in RankedLists(MaxGated), f \in FeatureTables, cfg \in RuleConfigs,
          ts \in Timestamps :
          gate = [ pc |-> "ready", candidates |-> cs, features |-> f, cfg |-> cfg,
                   ts |-> ts ]
    /\ BayesIdle
    /\ ScoreIdle
    /\ GenIdle
    /\ RankIdle
    /\ SimIdle
    /\ RiskIdle
    /\ EngineIdle
    /\ ExecIdle

ApplyRulesCall ==
    /\ gate.pc = "ready"
    /\ gate' = [ pc |-> "returned", candidates |-> gate.candidates,
                 features |-> gate.features, cfg |-> gate.cfg, ts |-> gate.ts,
                 result |-> IF gate.candidates = << >>
                            THEN [ raised |-> FALSE, filtered |-> << >> ]
                            ELSE ApplyRules(gate.candidates, gate.features,
                                            gate.cfg, gate.ts) ]
    /\ UNCHANGED <<bayes, scoring, stratVars, simVars, riskVars, callVars,
                   engineVars, execVars>>

GateNext == ApplyRulesCall

SpecGate == GateInit /\ [][GateNext]_vars

\* the timestamp is in the first avoid_first_minutes of regular hours, in
\* their last avoid_last_minutes, or outside every configured trade window
InsideTimeGate ==
    LET m == gate.ts.minute
        cfg == gate.cfg
    IN \/ RthOpenMinute <= m /\ m < RthOpenMinute + cfg.avoid_first_minutes
       \/ RthCloseMinute - cfg.avoid_last_minutes < m /\ m <= RthCloseMinute
       \/ /\ cfg.trade_windows # << >>
          /\ \A w \in 1..Len(cfg.trade_windows) :
                m < cfg.trade_windows[w].start \/ m > cfg.trade_windows[w].end

\* C24 (as stated): a list apply_rules returns holds no candidate when the
\* timestamp is inside the time gate.
C24_TimeGateExcludes ==
    (gate.pc = "returned" /\ ~gate.result.raised /\ InsideTimeGate)
    => gate.result.filtered = << >>

-----------------------------------------------------------------------------
(* The ledger against the daily limits *)

\* the number of Trades of a ledger opened on the date d
OpenedOn(ts, d) ==
    LET On(t) == DateOf(t.ts_open) = d
    IN Len(SelectSeq(ts, On))

\* C27: whenever a pass of the bar loop appends a Trade, opened on the date
\* d, the realized-R sum of d before the pass was strictly above
\* -daily_max_r, and the ledger then holds at most max_trades_day Trades
\* opened on d.
C27_LedgerWithinDailyLimits ==
    [][ trades' # trades =>
          LET t == trades'[Len(trades')]
              d == DateOf(t.ts_open)
              before == ResetDaily(Limits, d)
          IN /\ RatLT(RatOfInt(-cfg_risk.daily_max_r), before.daily_realized_r[d])
             /\ OpenedOn(trades', d) <= cfg_risk.max_trades_day ]_vars

\* the ledger holds max_trades_day Trades opened on one date, and a later
\* candidate of that date was turned away for it
C27_Witness ==
    /\ \E k \in 1..Len(log) :
          /\ log[k].outcome = "rejected"
          /\ log[k].decision.reason.limit = "max_trades_day"
          /\ OpenedOn(trades, log[k].trade_date) = cfg_risk.max_trades_day
    /\ trades # << >>

-----------------------------------------------------------------------------
(* The bars of a recorded Trade *)

-----------------------------------------------------------------------------
(* The planned dollar risk of a recorded Trade *)

\* qty * risk_points * point_value of a pass that recorded a Trade, with the
\* point value MakeTrade uses for its PnL and r_mult, in cents
PlannedRisk(pass) ==
    pass.decision.qty * pass.candidate.risk_points
        * CONTRACT_SPECS[run_symbol].point_value

-----------------------------------------------------------------------------
(* Open risk during a run *)

\* two Trades of the ledger overlap: the later one was opened while the
\* earlier one had not reached its exit bar
Overlapping ==
    \E j, k \in 1..Len(trades) :
        /\ j < k
        /\ trades[j].ts_open < trades[k].ts_open
        /\ trades[k].ts_open < trades[j].ts_close

\* C30: in every state of a run the open-risk total is 0, and the open-risk
\* check of a 1R trade allows exactly when 1 <= max_open_risk_r, whatever
\* Trades are still between their entry and their exit.
C30_OpenRiskStaysZero ==
    /\ open_risk_r = RatOfInt(0)
    /\ CheckMaxOpenRisk(Limits, cfg_risk, RatOfInt(1)).allow
           = (1 <= cfg_risk.max_open_risk_r)

\* a second Trade was accepted while the first was still open
C30_Witness == Overlapping /\ pc = "loop"

====
